---- MODULE Spec2Model ----
(***************************************************************************)
(* The virtual filesystem of src/filesystem.rs: an in-memory index         *)
(* (path -> FileMetadata) mirrored into the browser's local storage, a     *)
(* flat string-keyed map.  Strings are sequences of one-character strings, *)
(* so that trimming, prefix tests and std::path's component parsing are    *)
(* computed character by character, as the code computes them.  On top of  *)
(* it the components that call it: the file explorer, the terminal and the *)
(* desktop with its windows, each a record of the fields of its struct and *)
(* of the messages sent to it and not yet handled.                         *)
(***************************************************************************)
EXTENDS Integers, Sequences, FiniteSets, TLC

VARIABLES files, store, now, storeFailed, last, explorer, terminal, desktop

vars == <<files, store, now, storeFailed, last, explorer, terminal, desktop>>

\* the components above the filesystem
components == <<explorer, terminal, desktop>>

(***************************************************************************)
(* Bounds of the model.                                                    *)
(***************************************************************************)
\* the clock value after which no further mutating call is explored
MaxClock == 2

\* the number of windows after which the desktop creates no further one
MaxWindows == 2

\* the number of lines of terminal output after which no command is run
MaxOutput == 3

(***************************************************************************)
(* Strings.                                                                *)
(***************************************************************************)
SEP == "/"
DOT == "."
SPACE == " "

SlashStr == <<"/">>
DotStr == <<".">>
DotDotStr == <<".", ".">>
EmptyStr == <<>>

\* str::starts_with
StartsWith(s, p) ==
    /\ Len(p) <= Len(s)
    /\ SubSeq(s, 1, Len(p)) = p

\* str::ends_with(char)
EndsWithChar(s, c) == Len(s) > 0 /\ s[Len(s)] = c

\* str::contains(char)
ContainsChar(s, c) == \E i \in 1..Len(s) : s[i] = c

\* &s[n..]
DropPrefix(s, n) == SubSeq(s, n + 1, Len(s))

\* str::trim: both ends stripped of whitespace
Trim(s) ==
    IF \A i \in 1..Len(s) : s[i] = SPACE
    THEN EmptyStr
    ELSE SubSeq(s,
                CHOOSE i \in 1..Len(s) :
                    s[i] # SPACE /\ \A j \in 1..(i - 1) : s[j] = SPACE,
                CHOOSE i \in 1..Len(s) :
                    s[i] # SPACE /\ \A j \in (i + 1)..Len(s) : s[j] = SPACE)

\* position of the last separator of s, 0 when it has none (slice::rposition)
RPosSep(s) ==
    IF \A i \in 1..Len(s) : s[i] # SEP
    THEN 0
    ELSE CHOOSE i \in 1..Len(s) :
            s[i] = SEP /\ \A j \in (i + 1)..Len(s) : s[j] # SEP

(***************************************************************************)
(* std::path on a unix-like target (no prefixes, separator "/"), as used   *)
(* through Path::new(&path).parent() and .file_name().                     *)
(***************************************************************************)
None == [some |-> FALSE, val |-> EmptyStr]
Some(v) == [some |-> TRUE, val |-> v]

\* Components::has_physical_root, fixed when the iterator is built
HasPhysicalRoot(p) == Len(p) > 0 /\ p[1] = SEP

\* Components::include_cur_dir on the slice that is left
IncludeCurDir(p, root) ==
    /\ ~root
    /\ Len(p) > 0
    /\ p[1] = DOT
    /\ (Len(p) = 1 \/ p[2] = SEP)

\* Components::len_before_body while the front has not been consumed
LenBeforeBody(p, root) ==
    (IF root THEN 1 ELSE 0) + (IF IncludeCurDir(p, root) THEN 1 ELSE 0)

\* Components::parse_next_component_back: <<size, component>>
ParseNextComponentBack(p, root) ==
    CHOOSE r \in
        {[size |-> Len(p) - LenBeforeBody(p, root) - i + (IF i > 0 THEN 1 ELSE 0),
          comp |-> DropPrefix(p, LenBeforeBody(p, root) + i)]
            : i \in {RPosSep(DropPrefix(p, LenBeforeBody(p, root)))}} : TRUE

\* Components::parse_single_component: "" and "." are skipped inside a path
IsSkipped(comp) == comp = EmptyStr \/ comp = DotStr

\* Components::next_back, first call: the last component and the slice left.
\* (Values that are used more than once are bound by a quantifier over a
\* one-element set, here and below, so that each is computed once.)
RECURSIVE NextBack(_, _)
NextBack(p, root) ==
    IF Len(p) > LenBeforeBody(p, root)
    THEN CHOOSE c \in
            {IF IsSkipped(r.comp)
             THEN NextBack(SubSeq(p, 1, Len(p) - r.size), root)
             ELSE [kind |-> IF r.comp = DotDotStr THEN "ParentDir" ELSE "Normal",
                   comp |-> r.comp, rest |-> SubSeq(p, 1, Len(p) - r.size)]
                : r \in {ParseNextComponentBack(p, root)}} : TRUE
    ELSE IF root
         THEN [kind |-> "RootDir", comp |-> SlashStr, rest |-> SubSeq(p, 1, Len(p) - 1)]
    ELSE IF IncludeCurDir(p, root)
         THEN [kind |-> "CurDir", comp |-> DotStr, rest |-> SubSeq(p, 1, Len(p) - 1)]
    ELSE [kind |-> "End", comp |-> EmptyStr, rest |-> p]

\* Components::trim_right, used by as_path
RECURSIVE TrimRight(_, _)
TrimRight(p, root) ==
    IF Len(p) > LenBeforeBody(p, root)
    THEN CHOOSE q \in
            {IF IsSkipped(r.comp)
             THEN TrimRight(SubSeq(p, 1, Len(p) - r.size), root)
             ELSE p
                : r \in {ParseNextComponentBack(p, root)}} : TRUE
    ELSE p

\* Path::parent
PathParent(p) ==
    CHOOSE o \in
        {IF c.kind \in {"Normal", "CurDir", "ParentDir"}
         THEN Some(TrimRight(c.rest, HasPhysicalRoot(p)))
         ELSE None
            : c \in {NextBack(p, HasPhysicalRoot(p))}} : TRUE

\* Path::file_name
PathFileName(p) ==
    CHOOSE o \in
        {IF c.kind = "Normal" THEN Some(c.comp) ELSE None
            : c \in {NextBack(p, HasPhysicalRoot(p))}} : TRUE

\* FileSystem::normalize_path: trim, "" and "." become "/", nothing else changes
\* (PathBuf::from keeps the text of the path as it is)
normalize_path(path) ==
    CHOOSE n \in
        {IF trimmed = EmptyStr THEN SlashStr
         ELSE IF trimmed = DotStr THEN SlashStr
         ELSE trimmed
            : trimmed \in {Trim(path)}} : TRUE

(***************************************************************************)
(* Paths and contents the callers pass in.                                 *)
(***************************************************************************)
P_root == <<"/">>
P_home == <<"/", "h", "o", "m", "e">>
P_docs == P_home \o <<"/", "d", "o", "c", "u", "m", "e", "n", "t", "s">>
P_pics == P_home \o <<"/", "p", "i", "c", "t", "u", "r", "e", "s">>
P_apps == <<"/", "a", "p", "p", "l", "i", "c", "a", "t", "i", "o", "n", "s">>
P_atxt == P_docs \o <<"/", "a", ".", "t", "x", "t">>
P_homework == P_home \o <<"w", "o", "r", "k">>
P_a == <<"/", "a">>
P_ab == <<"/", "a", "/", "b">>
P_abc == <<"/", "a", "/", "b", "/", "c">>
\* spellings the terminal and the file explorer hand over as they are
P_homeSlash == P_home \o <<"/">>
P_workX == P_homework \o <<"/", "/", "x">>

PathArgs ==
    {P_root, P_home, P_docs, P_atxt, P_homework, P_abc, P_homeSlash, P_workX}

C_hi == <<"h", "i">>
C_bye == <<"b", "y", "e">>

ContentArgs == {C_hi, C_bye}

(***************************************************************************)
(* The host: window.localStorage and the clock.  One record per call says  *)
(* whether get_storage() yields the storage and from which set_item call   *)
(* on the storage refuses the write (0: none does).                        *)
(***************************************************************************)
EnvOk == [avail |-> TRUE, failFrom |-> 0]
EnvUnavailable == [avail |-> FALSE, failFrom |-> 0]
EnvSetFails == [avail |-> TRUE, failFrom |-> 1]
EnvSecondSetFails == [avail |-> TRUE, failFrom |-> 2]

Envs == {EnvOk, EnvUnavailable, EnvSetFails, EnvSecondSetFails}

\* the n-th set_item of a call succeeds
SetSucceeds(env, n) == env.failFrom = 0 \/ n < env.failFrom

(***************************************************************************)
(* Store keys and the serialized index.                                    *)
(***************************************************************************)
\* "wasm_desktop_fs"
IndexKey ==
    <<"w", "a", "s", "m", "_", "d", "e", "s", "k", "t", "o", "p", "_", "f", "s">>

\* "wasm_desktop_file:"
ContentPrefix ==
    <<"w", "a", "s", "m", "_", "d", "e", "s", "k", "t", "o", "p", "_",
      "f", "i", "l", "e", ":">>

\* a content key that is the same for every path
ContentKey_onePerStore(path) == ContentPrefix

\* format!("wasm_desktop_file:{}", path)
ContentKey(path) == ContentPrefix \o path

\* the content keys of the store
BlobKeys(st) == DOMAIN st \ {IndexKey}

\* a get_item that yields the empty text for a key the store does not hold
GetItem_emptyWhenMissing(st, key) ==
    IF key \in DOMAIN st
    THEN Some(st[key])
    ELSE Some([kind |-> "text", text |-> EmptyStr, doc |-> {}])

\* Storage::get_item
GetItem(st, key) == IF key \in DOMAIN st THEN Some(st[key]) ELSE None

\* a set_item that leaves a key it already holds as it is
SetItem_keepsOld(st, key, value) ==
    [k \in DOMAIN st \cup {key} |-> IF k \in DOMAIN st THEN st[k] ELSE value]

\* Storage::set_item
SetItem(st, key, value) ==
    [k \in DOMAIN st \cup {key} |-> IF k = key THEN value ELSE st[k]]

\* serde_json::to_string(&FileSystem): the document {"files": {path: {...}}};
\* the enum is written by the name of its variant
TypeName(t) == IF t = "Directory" THEN <<"D">> ELSE <<"F">>

\* what a key of the storage holds: the text of a file, or an index document
Text(s) == [kind |-> "text", text |-> s, doc |-> {}]
Document(d) == [kind |-> "doc", text |-> EmptyStr, doc |-> d]

Serialize(fs) ==
    Document({<<p, fs[p].name, TypeName(fs[p].file_type),
                fs[p].size, fs[p].created, fs[p].modified>> : p \in DOMAIN fs})

\* a from_str that fails on every text
IsDocument_never(v) == FALSE

\* serde_json::from_str::<FileSystem>: fails on text that is no such document
IsDocument(v) == v.kind = "doc"

\* a reader of the variant name that takes every entry for a File
TypeOfName_allFiles(n) == "File"

TypeOfName(n) == IF n = <<"D">> THEN "Directory" ELSE "File"

Deserialize(v) ==
    LET entry(p) == CHOOSE e \in v.doc : e[1] = p
    IN  [p \in {e[1] : e \in v.doc} |->
            [name |-> entry(p)[2], file_type |-> TypeOfName(entry(p)[3]),
             size |-> entry(p)[4], created |-> entry(p)[5],
             modified |-> entry(p)[6]]]

(***************************************************************************)
(* The operations of FileSystem.  Each is a function of the index, the     *)
(* store, the arguments, the clock and the host's behaviour during the     *)
(* call; it yields the index and the store the call leaves behind, the     *)
(* result, the number of set_item calls made so far and whether a store    *)
(* call failed.  Results are named after the message the code returns.     *)
(***************************************************************************)
Outcome(fs, st, res, n, fault) ==
    [files |-> fs, store |-> st, res |-> res, n |-> n, fault |-> fault]

\* HashMap::insert
Insert(fs, path, meta) ==
    [k \in DOMAIN fs \cup {path} |-> IF k = path THEN meta ELSE fs[k]]

\* a remove that takes out no entry
RemoveAll_keepsEntries(fs, paths) == fs

\* HashMap::remove, for a set of keys
RemoveAll(fs, paths) == [k \in DOMAIN fs \ paths |-> fs[k]]

DirectoryMeta(name, t) ==
    [name |-> name, file_type |-> "Directory", size |-> 0,
     created |-> t, modified |-> t]

\* a write that stamps created anew on every call
FileMeta_stampsCreated(name, contents, created, t) ==
    [name |-> name, file_type |-> "File", size |-> Len(contents),
     created |-> t, modified |-> t]

FileMeta(name, contents, created, t) ==
    [name |-> name, file_type |-> "File", size |-> Len(contents),
     created |-> created, modified |-> t]

\* if path.ends_with('/') { path } else { format!("{}/", path) }
PathPrefix(path) == IF EndsWithChar(path, SEP) THEN path ELSE path \o <<SEP>>

\* the test both callers make before they use the parent
ParentAbsent(fs, parent) ==
    /\ parent # EmptyStr
    /\ parent # SlashStr
    /\ parent \notin DOMAIN fs

\* a save that reports success without writing the index
save_skipsWrite(fs, st, env, n) ==
    IF ~env.avail
    THEN Outcome(fs, st, "ErrStorageUnavailable", n, TRUE)
    ELSE Outcome(fs, st, "Ok", n + 1, FALSE)

\* FileSystem::save
save(fs, st, env, n) ==
    IF ~env.avail
    THEN Outcome(fs, st, "ErrStorageUnavailable", n, TRUE)
    ELSE IF ~SetSucceeds(env, n + 1)
    THEN Outcome(fs, st, "ErrSave", n + 1, TRUE)
    ELSE Outcome(fs, SetItem(st, IndexKey, Serialize(fs)), "Ok", n + 1, FALSE)

\* the keys whose metadata list_directory pushes
DirectChildren(fs, path) ==
    UNION {{k \in DOMAIN fs :
                /\ k # path
                /\ StartsWith(k, path_prefix)
                /\ ~ContainsChar(DropPrefix(k, Len(path_prefix)), SEP)}
            : path_prefix \in {PathPrefix(path)}}

\* a list_directory that lists below a File as it does below a Directory
list_directory_anyEntry(fs, rawpath) ==
    CHOOSE r \in
        {IF path \notin DOMAIN fs
         THEN [res |-> "ErrNotFound", listed |-> {}]
         ELSE [res |-> "Ok", listed |-> DirectChildren(fs, path)]
            : path \in {normalize_path(rawpath)}} : TRUE

\* FileSystem::list_directory; listed: the keys of the entries returned
list_directory(fs, rawpath) ==
    CHOOSE r \in
        {IF path \notin DOMAIN fs
         THEN [res |-> "ErrNotFound", listed |-> {}]
         ELSE IF fs[path].file_type # "Directory"
         THEN [res |-> "ErrNotADirectory", listed |-> {}]
         ELSE [res |-> "Ok", listed |-> DirectChildren(fs, path)]
            : path \in {normalize_path(rawpath)}} : TRUE

\* a contains_key that sees the directories only
contains_key_directoriesOnly(fs, path) ==
    path \in DOMAIN fs /\ fs[path].file_type = "Directory"

\* HashMap::contains_key, as create_directory asks it of the path itself
contains_key(fs, path) == path \in DOMAIN fs

\* create_directory once the path is normalized; pre is what the call for the
\* parent left behind
CreateAt(path, parent, name, t, env, pre) ==
    IF pre.res # "Ok"
    THEN pre
    ELSE IF ~name.some
    THEN Outcome(pre.files, pre.store, "ErrInvalidPath", pre.n, pre.fault)
    ELSE save(Insert(pre.files, path, DirectoryMeta(name.val, t)),
              pre.store, env, pre.n)

\* FileSystem::create_directory
RECURSIVE create_directory(_, _, _, _, _, _, _)
create_directory(fs, st, rawpath, create_parents, t, env, n) ==
    CHOOSE o \in
        {IF contains_key(fs, path)
         THEN Outcome(fs, st, "ErrAlreadyExists", n, FALSE)
         ELSE CHOOSE o2 \in
            {IF ~parent.some
             THEN Outcome(fs, st, "ErrInvalidPath", n, FALSE)
             ELSE IF ~create_parents /\ ParentAbsent(fs, parent.val)
             THEN Outcome(fs, st, "ErrParentMissing", n, FALSE)
             ELSE CHOOSE o3 \in
                {CreateAt(path, parent, PathFileName(path), t, env, pre)
                    : pre \in
                        {IF create_parents /\ ParentAbsent(fs, parent.val)
                         THEN create_directory(fs, st, parent.val, TRUE, t, env, n)
                         ELSE Outcome(fs, st, "Ok", n, FALSE)}} : TRUE
                : parent \in {PathParent(path)}} : TRUE
            : path \in {normalize_path(rawpath)}} : TRUE

\* write_file once the path is normalized
WriteAt(fs, st, path, parent, name, contents, t, env) ==
    IF ~parent.some
    THEN Outcome(fs, st, "ErrInvalidPath", 0, FALSE)
    ELSE IF ParentAbsent(fs, parent.val)
    THEN Outcome(fs, st, "ErrParentMissing", 0, FALSE)
    ELSE IF ~name.some
    THEN Outcome(fs, st, "ErrInvalidPath", 0, FALSE)
    ELSE CHOOSE o \in
        {IF ~env.avail
         THEN Outcome(inserted, st, "ErrStorageUnavailable", 0, TRUE)
         ELSE IF ~SetSucceeds(env, 1)
         THEN Outcome(inserted, st, "ErrWrite", 1, TRUE)
         ELSE save(inserted, SetItem(st, ContentKey(path), Text(contents)), env, 1)
            : inserted \in
                {Insert(fs, path,
                        FileMeta(name.val, contents,
                                 IF path \in DOMAIN fs THEN fs[path].created ELSE t,
                                 t))}} : TRUE

\* FileSystem::write_file
write_file(fs, st, rawpath, contents, t, env) ==
    CHOOSE o \in
        {WriteAt(fs, st, path, parent, name, contents, t, env)
            : path \in {normalize_path(rawpath)},
              parent \in {PathParent(normalize_path(rawpath))},
              name \in {PathFileName(normalize_path(rawpath))}} : TRUE

\* FileSystem::read_file; out: the contents returned
read_file(fs, st, rawpath, env) ==
    CHOOSE r \in
        {IF path \notin DOMAIN fs
         THEN [res |-> "ErrNotFound", out |-> EmptyStr]
         ELSE IF fs[path].file_type # "File"
         THEN [res |-> "ErrNotAFile", out |-> EmptyStr]
         ELSE IF ~env.avail
         THEN [res |-> "ErrStorageUnavailable", out |-> EmptyStr]
         ELSE IF ~GetItem(st, ContentKey(path)).some
         THEN [res |-> "ErrRead", out |-> EmptyStr]
         ELSE [res |-> "Ok", out |-> GetItem(st, ContentKey(path)).val.text]
            : path \in {normalize_path(rawpath)}} : TRUE

\* the keys delete collects below a directory
Descendants(fs, path) ==
    {k \in DOMAIN fs : k # path /\ StartsWith(k, PathPrefix(path))}

\* a delete that leaves the content blobs in the store
RemoveItems_keepsBlobs(st, keys) == st

\* Storage::remove_item, for every key of a set of content keys
RemoveItems(st, keys) == [k \in DOMAIN st \ keys |-> st[k]]

\* delete once the path is normalized and found in the index; the unwrap of the
\* entry aborts the program when the index has none
DeleteAt(fs, st, path, recursive, env) ==
    IF path \notin DOMAIN fs
    THEN Outcome(fs, st, "Panic", 0, FALSE)
    ELSE IF fs[path].file_type = "Directory"
    THEN CHOOSE o \in
        {IF children.res # "Ok"
         THEN Outcome(fs, st, children.res, 0, FALSE)
         ELSE IF children.listed # {} /\ ~recursive
         THEN Outcome(fs, st, "ErrNotEmpty", 0, FALSE)
         ELSE CHOOSE o2 \in
            {save(RemoveAll(fs, paths_to_delete \cup {path}),
                  IF env.avail
                  THEN RemoveItems(st, {ContentKey(k) : k \in
                            {q \in paths_to_delete : fs[q].file_type = "File"}})
                  ELSE st,
                  env, 0)
                : paths_to_delete \in
                    {IF recursive THEN Descendants(fs, path) ELSE {}}} : TRUE
            : children \in {list_directory(fs, path)}} : TRUE
    ELSE save(RemoveAll(fs, {path}),
              IF env.avail THEN RemoveItems(st, {ContentKey(path)}) ELSE st,
              env, 0)

\* a delete that does not ask whether the path is in the index
delete_withoutLookup(fs, st, rawpath, recursive, env) ==
    DeleteAt(fs, st, normalize_path(rawpath), recursive, env)

\* FileSystem::delete
delete(fs, st, rawpath, recursive, env) ==
    CHOOSE o \in
        {IF path \notin DOMAIN fs
         THEN Outcome(fs, st, "ErrNotFound", 0, FALSE)
         ELSE DeleteAt(fs, st, path, recursive, env)
            : path \in {normalize_path(rawpath)}} : TRUE

\* a seed set without /home/pictures
SeedPaths_withoutPictures == <<P_home, P_docs, P_apps>>

\* the seed directories of FileSystem::new, in the order they are created
SeedPaths == <<P_home, P_docs, P_pics, P_apps>>

RootOnly(t) == [k \in {P_root} |-> [name |-> SlashStr, file_type |-> "Directory",
                                     size |-> 0, created |-> t, modified |-> t]]

\* the create_directory calls of new, each ending the construction on an error
RECURSIVE Seed(_, _, _, _)
Seed(o, i, t, env) ==
    IF i > Len(SeedPaths) \/ o.res # "Ok"
    THEN o
    ELSE CHOOSE r \in
            {Seed(c, i + 1, t, env)
                : c \in {create_directory(o.files, o.store, SeedPaths[i], TRUE,
                                          t, env, o.n)}} : TRUE

\* FileSystem::new
new(st, t, env) ==
    IF /\ env.avail
       /\ GetItem(st, IndexKey).some
       /\ ~(GetItem(st, IndexKey).val.kind = "text"
                /\ GetItem(st, IndexKey).val.text = EmptyStr)
       /\ IsDocument(GetItem(st, IndexKey).val)
    THEN Outcome(Deserialize(GetItem(st, IndexKey).val), st, "Ok", 0, FALSE)
    ELSE CHOOSE o \in
            {IF seeded.res # "Ok"
             THEN seeded
             ELSE save(seeded.files, seeded.store, env, seeded.n)
                : seeded \in
                    {CHOOSE r \in
                        {Seed(o0, 1, t, env)
                            : o0 \in {Outcome(RootOnly(t), st, "Ok", 0, FALSE)}}
                        : TRUE}} : TRUE

(***************************************************************************)
(* The components as their create leaves them.  Each holds, besides the    *)
(* fields of its struct, the messages sent to it through its link or its   *)
(* callbacks and not yet handled (queue).                                  *)
(***************************************************************************)
Msg(type, arg) == [type |-> type, arg |-> arg]

\* the Vec<FileMetadata> list_directory returns: the entries without their keys
Listing(fs, r) == IF r.res = "Ok" THEN {fs[k] : k \in r.listed} ELSE {}

\* FileExplorer::create
FileExplorer_create(fs) ==
    [current_path |-> P_home,
     files |-> Listing(fs, list_directory(fs, P_home)),
     selected_file |-> None,
     error_message |-> [some |-> FALSE, val |-> ""],
     queue |-> <<>>]

\* a line of the terminal's output: its variant, the fixed text it is built
\* from (with the error it reports, if any) and the text put into it; the
\* names a listing prints are not kept
Line(kind, text, arg) == [kind |-> kind, text |-> text, arg |-> arg]

\* Terminal::create
Terminal_create ==
    [current_directory |-> P_home,
     command_history |-> <<>>,
     history_index |-> [some |-> FALSE, val |-> 0],
     output_history |-> <<Line("StandardOutput", <<"WasmOS Terminal v0.1.0">>, EmptyStr),
                          Line("StandardOutput", <<"Type 'help'">>, EmptyStr)>>,
     current_input |-> EmptyStr,
     queue |-> <<>>]

\* Desktop::create, once FileSystem::new has succeeded
Desktop_create ==
    [windows |-> [id \in {} |-> {}],
     active_window_id |-> None,
     window_counter |-> 0,
     context_menu |-> None,
     background_color |-> <<"#", "2", "a", "6", "4", "9", "6">>,
     queue |-> <<>>]

(***************************************************************************)
(* The state machine: one filesystem instance, the store behind it, the    *)
(* host clock, and a record of the last call and of what it returned.      *)
(* The clock is in milliseconds; every call that changes something happens *)
(* at a later millisecond than the one before it.                          *)
(***************************************************************************)
EmptyStore == [k \in {} |-> Text(EmptyStr)]

\* the store after write_file("/home/documents/a.txt", "hi") and
\* create_directory("/homework", false) on the seed tree new builds
UsedStore ==
    CHOOSE st \in
        {create_directory(w.files, w.store, P_homework, FALSE, 0, EnvOk, 0).store
            : w \in {write_file(seeded.files, seeded.store, P_atxt, C_hi, 0, EnvOk)
                        : seeded \in {new(EmptyStore, 0, EnvOk)}}} : TRUE

\* what the store may hold when the page is opened: nothing, or what an earlier
\* session left behind (a tree in use, or the root alone after the seed
\* directories were deleted)
InitStores ==
    {EmptyStore, UsedStore, SetItem(EmptyStore, IndexKey, Serialize(RootOnly(0)))}

Call(op, path, flag, contents, res, out, listed) ==
    [op |-> op, path |-> path, flag |-> flag, contents |-> contents,
     res |-> res, out |-> out, listed |-> listed]

Init ==
    \E st \in InitStores :
        \E o \in {new(st, 0, EnvOk)} :
            /\ files = o.files
            /\ store = o.store
            /\ now = 0
            /\ storeFailed = FALSE
            /\ last = Call("new", EmptyStr, FALSE, EmptyStr, o.res, EmptyStr, {})
            /\ explorer = FileExplorer_create(o.files)
            /\ terminal = Terminal_create
            /\ desktop = Desktop_create

\* a mutating call took place and left o behind
Mutated(o) ==
    /\ files' = o.files
    /\ store' = o.store
    /\ now' = now + 1
    /\ storeFailed' = (storeFailed \/ o.fault)

CreateDirectory(path, create_parents, env) ==
    /\ now < MaxClock
    /\ UNCHANGED components
    /\ \E o \in {create_directory(files, store, path, create_parents, now + 1, env, 0)} :
           /\ Mutated(o)
           /\ last' = Call("create_directory", path, create_parents, EmptyStr,
                           o.res, EmptyStr, {})

WriteFile(path, contents, env) ==
    /\ now < MaxClock
    /\ UNCHANGED components
    /\ \E o \in {write_file(files, store, path, contents, now + 1, env)} :
           /\ Mutated(o)
           /\ last' = Call("write_file", path, FALSE, contents, o.res, EmptyStr, {})

Delete(path, recursive, env) ==
    /\ now < MaxClock
    /\ UNCHANGED components
    /\ \E o \in {delete(files, store, path, recursive, env)} :
           /\ Mutated(o)
           /\ last' = Call("delete", path, recursive, EmptyStr, o.res, EmptyStr, {})

ReadFile(path, env) ==
    /\ \E r \in {read_file(files, store, path, env)} :
           last' = Call("read_file", path, FALSE, EmptyStr, r.res, r.out, {})
    /\ UNCHANGED <<files, store, now, storeFailed, components>>

\* a list_directory that saves the index before it returns
ListDirectory_savesIndex(path) ==
    /\ \E r \in {list_directory(files, path)} :
           last' = Call("list_directory", path, FALSE, EmptyStr, r.res, EmptyStr,
                        r.listed)
    /\ store' = save(files, store, EnvOk, 0).store
    /\ UNCHANGED <<files, now, storeFailed, components>>

ListDirectory(path) ==
    /\ \E r \in {list_directory(files, path)} :
           last' = Call("list_directory", path, FALSE, EmptyStr, r.res, EmptyStr,
                        r.listed)
    /\ UNCHANGED <<files, store, now, storeFailed, components>>

\* the page is loaded again: FileSystem::new builds the instance from the store;
\* when it fails no instance replaces the one at hand
Reload(env) ==
    /\ now < MaxClock
    /\ UNCHANGED components
    /\ \E o \in {new(store, now + 1, env)} :
           /\ files' = IF o.res = "Ok" THEN o.files ELSE files
           /\ store' = o.store
           /\ now' = now + 1
           /\ storeFailed' = (storeFailed \/ o.fault)
           /\ last' = Call("new", EmptyStr, FALSE, EmptyStr, o.res, EmptyStr, {})

\* the host works: the storage is there and takes every write
Next ==
    \/ \E p \in PathArgs, cp \in BOOLEAN : CreateDirectory(p, cp, EnvOk)
    \/ \E p \in PathArgs, c \in ContentArgs : WriteFile(p, c, EnvOk)
    \/ \E p \in PathArgs, r \in BOOLEAN : Delete(p, r, EnvOk)
    \/ \E p \in PathArgs : ReadFile(p, EnvOk)
    \/ \E p \in PathArgs : ListDirectory(p)
    \/ Reload(EnvOk)

Spec == Init /\ [][Next]_vars

(***************************************************************************)
(* The same filesystem on a host that may fail: during any call the        *)
(* storage may be out of reach or refuse a write, and the page may stop    *)
(* between two store calls of a write_file or of a delete, after which it  *)
(* is loaded again from what the store holds.                              *)
(***************************************************************************)
FaultPaths == {P_docs, P_atxt, P_homework}

\* the store when write_file has written the content blob and not yet the index
StoreInsideWrite(fs, st, path, contents, t) ==
    CHOOSE r \in
        {IF o.res = "ErrSave" THEN Some(o.store) ELSE None
            : o \in {write_file(fs, st, path, contents, t, EnvSecondSetFails)}} : TRUE

\* the store when delete has made the remove_item calls for all but the keys
\* kept and has not yet written the index
StoreInsideDelete(fs, st, path, recursive, kept) ==
    CHOOSE r \in
        {IF o.res = "ErrSave" /\ kept \subseteq (DOMAIN st \ DOMAIN o.store)
         THEN Some([k \in DOMAIN o.store \cup kept |-> st[k]])
         ELSE None
            : o \in {delete(fs, st, path, recursive, EnvSetFails)}} : TRUE

\* the page stopped with the store as it is in at.val and was loaded again
Crashed(op, path, flag, contents, at) ==
    /\ now < MaxClock
    /\ at.some
    /\ UNCHANGED components
    /\ \E o \in {new(at.val, now + 1, EnvOk)} :
           /\ files' = o.files
           /\ store' = o.store
           /\ now' = now + 1
           /\ storeFailed' = TRUE
           /\ last' = Call(op, path, flag, contents, "Crash", EmptyStr, {})

CrashInWriteFile(path, contents) ==
    Crashed("write_file", path, FALSE, contents,
            StoreInsideWrite(files, store, path, contents, now + 1))

CrashInDelete(path, recursive, kept) ==
    Crashed("delete", path, recursive, EmptyStr,
            StoreInsideDelete(files, store, path, recursive, kept))

NextFaults ==
    \/ \E p \in FaultPaths, cp \in BOOLEAN, env \in Envs : CreateDirectory(p, cp, env)
    \/ \E p \in FaultPaths, c \in ContentArgs, env \in Envs : WriteFile(p, c, env)
    \/ \E p \in FaultPaths, r \in BOOLEAN, env \in Envs : Delete(p, r, env)
    \/ \E p \in FaultPaths, env \in {EnvOk, EnvUnavailable} : ReadFile(p, env)
    \/ \E p \in FaultPaths : ListDirectory(p)
    \/ \E env \in Envs : Reload(env)
    \/ \E p \in FaultPaths, c \in ContentArgs : CrashInWriteFile(p, c)
    \/ \E p \in FaultPaths, r \in BOOLEAN :
            \E kept \in SUBSET BlobKeys(store) : CrashInDelete(p, r, kept)

SpecFaults == Init /\ [][NextFaults]_vars

(***************************************************************************)
(* The filesystem and what else happens to the storage of the origin: the  *)
(* storage is cleared, or the index key is overwritten with a text that is *)
(* empty or is no serialized index; the page is loaded again on a host     *)
(* that works or fails.                                                    *)
(***************************************************************************)
HostPaths == {P_atxt, P_homework}

\* values of the index key that new() does not take for an index
NoIndexValues == {Text(EmptyStr), Text(C_hi)}

\* Storage.clear() by the user or by the page's other scripts
StoreCleared ==
    /\ now < MaxClock
    /\ store' = EmptyStore
    /\ now' = now + 1
    /\ last' = Call("clear", EmptyStr, FALSE, EmptyStr, "Ok", EmptyStr, {})
    /\ UNCHANGED <<files, storeFailed, components>>

\* the index key set to a value that is no index
IndexOverwritten(v) ==
    /\ now < MaxClock
    /\ store' = SetItem(store, IndexKey, v)
    /\ now' = now + 1
    /\ last' = Call("overwrite", EmptyStr, FALSE, v.text, "Ok", EmptyStr, {})
    /\ UNCHANGED <<files, storeFailed, components>>

NextHost ==
    \/ \E p \in HostPaths, cp \in BOOLEAN : CreateDirectory(p, cp, EnvOk)
    \/ \E p \in HostPaths, c \in ContentArgs, env \in {EnvOk, EnvUnavailable} :
            WriteFile(p, c, env)
    \/ \E p \in HostPaths \cup {P_root}, r \in BOOLEAN : Delete(p, r, EnvOk)
    \/ \E p \in HostPaths : ReadFile(p, EnvOk)
    \/ \E p \in {P_root, P_home} : ListDirectory(p)
    \/ StoreCleared
    \/ \E v \in NoIndexValues : IndexOverwritten(v)
    \/ \E env \in Envs : Reload(env)

SpecHost == Init /\ [][NextHost]_vars

(***************************************************************************)
(* The filesystem called with any path string: empty, relative, with "."   *)
(* and ".." segments, with surrounding whitespace, on a host whose storage *)
(* may be out of reach.                                                    *)
(***************************************************************************)
P_empty == EmptyStr
P_dotdot == DotDotStr
P_relative == <<"h", "o", "m", "e">>
P_aDotDot == <<"/", "a", "/", ".", ".">>
P_spaced == <<" ">> \o P_home \o <<" ">>

AnyPaths == {P_empty, P_dotdot, P_relative, P_aDotDot, P_spaced, P_atxt}

NextAnyPath ==
    \/ \E p \in AnyPaths, cp \in BOOLEAN, env \in {EnvOk, EnvUnavailable} :
            CreateDirectory(p, cp, env)
    \/ \E p \in AnyPaths, c \in ContentArgs, env \in {EnvOk, EnvUnavailable} :
            WriteFile(p, c, env)
    \/ \E p \in AnyPaths, r \in BOOLEAN, env \in {EnvOk, EnvUnavailable} :
            Delete(p, r, env)
    \/ \E p \in AnyPaths, env \in {EnvOk, EnvUnavailable} : ReadFile(p, env)
    \/ \E p \in AnyPaths : ListDirectory(p)
    \/ Reload(EnvOk)

SpecAnyPath == Init /\ [][NextAnyPath]_vars

(***************************************************************************)
(* The filesystem called with paths that have "." and ".." segments, at    *)
(* the end of the path and inside it.                                      *)
(***************************************************************************)

DotPaths == {P_a, <<"/", "a", "/", ".">>, <<"/", "a", "/", ".", "/", "b">>,
        <<".", "/", "a">>, P_aDotDot, <<"/", "a", "/", ".", ".", "/", "b">>, P_dotdot}

NextDotPaths ==
    \/ \E p \in DotPaths, cp \in BOOLEAN : CreateDirectory(p, cp, EnvOk)
    \/ \E p \in DotPaths, c \in ContentArgs : WriteFile(p, c, EnvOk)
    \/ \E p \in DotPaths, r \in BOOLEAN : Delete(p, r, EnvOk)
    \/ \E p \in DotPaths : ReadFile(p, EnvOk)
    \/ \E p \in DotPaths : ListDirectory(p)
    \/ Reload(EnvOk)

SpecDotPaths == Init /\ [][NextDotPaths]_vars

(***************************************************************************)
(* The desktop of src/components/desktop.rs: Desktop::update, one operator *)
(* per message, each a function of the Desktop it is called on.  A window  *)
(* id is the text "window-<n>"; HashMap::keys().next() yields any key.     *)
(***************************************************************************)

\* format!("{}", n) of an unsigned number
RECURSIVE Decimal(_)
Decimal(n) ==
    LET Digits == <<"0", "1", "2", "3", "4", "5", "6", "7", "8", "9">>
    IN  IF n < 10 THEN <<Digits[n + 1]>>
        ELSE Decimal(n \div 10) \o <<Digits[(n % 10) + 1]>>

\* format!("window-{}", self.window_counter)
WindowId(n) == <<"w", "i", "n", "d", "o", "w", "-">> \o Decimal(n)

\* WindowContentType
Content(kind, file_path) == [kind |-> kind, file_path |-> file_path]

WindowState(id, title, x, y, content_type) ==
    [id |-> id, title |-> title, x |-> x, y |-> y, width |-> 600,
     height |-> 400, is_minimized |-> FALSE, is_focused |-> TRUE,
     content_type |-> content_type]

\* for each window but those of keep: is_focused = false
Unfocus(windows, keep) ==
    [w \in DOMAIN windows |->
        IF w \in keep THEN windows[w]
        ELSE [windows[w] EXCEPT !.is_focused = FALSE]]

\* a CreateWindow that leaves the focus of the other windows as it is
CreateWindow_keepsFocus(d, title, content_type) ==
    CHOOSE r \in
        {[d EXCEPT
            !.window_counter = d.window_counter + 1,
            !.windows =
                [w \in DOMAIN d.windows \cup {id} |->
                    IF w = id
                    THEN WindowState(id, title,
                            50 + ((Cardinality(DOMAIN d.windows) % 5) * 30),
                            50 + ((Cardinality(DOMAIN d.windows) % 5) * 30),
                            content_type)
                    ELSE d.windows[w]],
            !.active_window_id = Some(id)]
            : id \in {WindowId(d.window_counter)}} : TRUE

\* DesktopMsg::CreateWindow
CreateWindow(d, title, content_type) ==
    CHOOSE r \in
        {[d EXCEPT
            !.window_counter = d.window_counter + 1,
            !.windows =
                [w \in DOMAIN d.windows \cup {id} |->
                    IF w = id
                    THEN WindowState(id, title,
                            50 + ((Cardinality(DOMAIN d.windows) % 5) * 30),
                            50 + ((Cardinality(DOMAIN d.windows) % 5) * 30),
                            content_type)
                    ELSE Unfocus(d.windows, {})[w]],
            !.active_window_id = Some(id)]
            : id \in {WindowId(d.window_counter)}} : TRUE

\* what self.windows.keys().next().cloned() may yield
NextKeys(windows) ==
    IF DOMAIN windows = {} THEN {None} ELSE {Some(w) : w \in DOMAIN windows}

\* DesktopMsg::CloseWindow; next: the key keys().next() yields after the remove
CloseWindow(d, id, next) ==
    CHOOSE r \in
        {IF d.active_window_id = Some(id)
         THEN [d EXCEPT
                !.windows =
                    [w \in DOMAIN left |->
                        IF next = Some(w)
                        THEN [left[w] EXCEPT !.is_focused = TRUE]
                        ELSE left[w]],
                !.active_window_id = next]
         ELSE [d EXCEPT !.windows = left]
            : left \in {[w \in DOMAIN d.windows \ {id} |-> d.windows[w]]}} : TRUE

\* DesktopMsg::MinimizeWindow
MinimizeWindow(d, id) ==
    [d EXCEPT !.windows =
        [w \in DOMAIN d.windows |->
            IF w = id THEN [d.windows[w] EXCEPT !.is_minimized = TRUE]
            ELSE d.windows[w]]]

\* DesktopMsg::RestoreWindow
RestoreWindow(d, id) ==
    [d EXCEPT
        !.windows =
            Unfocus([w \in DOMAIN d.windows |->
                        IF w = id
                        THEN [d.windows[w] EXCEPT !.is_minimized = FALSE,
                                                  !.is_focused = TRUE]
                        ELSE d.windows[w]],
                    {id}),
        !.active_window_id = Some(id)]

\* DesktopMsg::FocusWindow
FocusWindow(d, id) ==
    [d EXCEPT
        !.windows = [w \in DOMAIN d.windows |->
                        [d.windows[w] EXCEPT !.is_focused = (w = id)]],
        !.active_window_id = Some(id)]

\* DesktopMsg::ContextMenu
ContextMenu(d, x, y) ==
    [d EXCEPT !.context_menu =
        IF d.context_menu.some THEN None ELSE Some(<<x, y>>)]

\* DesktopMsg::OpenFile: the CreateWindow message it sends to the desktop
OpenFile(d, path, file_type) ==
    [d EXCEPT !.queue = d.queue \o
        <<Msg("CreateWindow",
              [title |->
                    (IF PathFileName(path).some
                     THEN PathFileName(path).val ELSE path)
                        \o <<" ", "-", " ">>
                        \o (IF file_type = "text"
                            THEN <<"T", "e", "x", "t", " ", "E", "d", "i", "t", "o", "r">>
                                    ELSE <<"I", "m", "a", "g", "e", " ", "V", "i", "e", "w", "e", "r">>),
               content_type |->
                    IF file_type = "image"
                    THEN Content("ImageViewer", Some(path))
                    ELSE Content("TextEditor", Some(path))])>>]

\* DesktopMsg::ChangeBackgroundColor
ChangeBackgroundColor(d, color) == [d EXCEPT !.background_color = color]

(***************************************************************************)
(* The desktop as a state machine: the messages its view, its windows and  *)
(* its taskbar send.  A message from a window or from the taskbar carries  *)
(* the id of a window that was on the screen when it was sent and may be   *)
(* gone when it is handled.  The messages the desktop has sent to itself   *)
(* are handled before the next message from outside.                       *)
(***************************************************************************)

\* update has handled a message and left the desktop d behind
Handled(d, type, arg) ==
    /\ desktop' = d
    /\ last' = Call(type, arg, FALSE, EmptyStr, "Ok", EmptyStr, {})
    /\ UNCHANGED <<files, store, now, storeFailed, explorer, terminal>>

OnCreateWindow(title, content_type, rest) ==
    /\ desktop.window_counter < MaxWindows
    /\ Handled(CreateWindow([desktop EXCEPT !.queue = rest], title, content_type),
               "CreateWindow", title)

OnCloseWindow(id) ==
    /\ desktop.queue = <<>>
    /\ \E next \in NextKeys([w \in DOMAIN desktop.windows \ {id} |-> {}]) :
            Handled(CloseWindow(desktop, id, next), "CloseWindow", id)

OnMinimizeWindow(id) ==
    desktop.queue = <<>> /\ Handled(MinimizeWindow(desktop, id), "MinimizeWindow", id)

OnRestoreWindow(id) ==
    desktop.queue = <<>> /\ Handled(RestoreWindow(desktop, id), "RestoreWindow", id)

OnFocusWindow(id) ==
    desktop.queue = <<>> /\ Handled(FocusWindow(desktop, id), "FocusWindow", id)

OnContextMenu(x, y) ==
    desktop.queue = <<>> /\ Handled(ContextMenu(desktop, x, y), "ContextMenu", EmptyStr)

OnOpenFile(path, file_type, rest) ==
    /\ desktop.window_counter < MaxWindows
    /\ Handled(OpenFile([desktop EXCEPT !.queue = rest], path, file_type),
               "OpenFile", path)

OnChangeBackgroundColor(color) ==
    /\ desktop.queue = <<>>
    /\ Handled(ChangeBackgroundColor(desktop, color), "ChangeBackgroundColor", color)

\* the desktop handles the message at the head of its queue
DesktopDeliver ==
    /\ desktop.queue # <<>>
    /\ \E m \in {Head(desktop.queue)} :
          \/ /\ m.type = "CreateWindow"
             /\ OnCreateWindow(m.arg.title, m.arg.content_type, Tail(desktop.queue))
          \/ /\ m.type = "OpenFile"
             /\ OnOpenFile(m.arg, "text", Tail(desktop.queue))

NextDesktop ==
    \/ desktop.queue = <<>> /\ \E app \in {[title |-> <<"F", "i", "l", "e", " ", "E", "x", "p", "l", "o", "r", "e", "r">>, content_type |-> Content("FileExplorer", None)], [title |-> <<"T", "e", "r", "m", "i", "n", "a", "l">>, content_type |-> Content("Terminal", None)]} :
            OnCreateWindow(app.title, app.content_type, <<>>)
    \/ \E id \in {WindowId(n) : n \in 0..(MaxWindows - 1)} : OnCloseWindow(id)
    \/ \E id \in {WindowId(n) : n \in 0..(MaxWindows - 1)} : OnMinimizeWindow(id)
    \/ \E id \in {WindowId(n) : n \in 0..(MaxWindows - 1)} : OnRestoreWindow(id)
    \/ \E id \in {WindowId(n) : n \in 0..(MaxWindows - 1)} : OnFocusWindow(id)
    \/ OnContextMenu(100, 100)
    \/ desktop.queue = <<>> /\ \E file_type \in {"text", "image"} :
            OnOpenFile(P_atxt, file_type, <<>>)
    \/ \E color \in {<<"#", "2", "a", "6", "4", "9", "6">>,
               <<"#", "2", "a", "9", "6", "5", "2">>} : OnChangeBackgroundColor(color)
    \/ DesktopDeliver

SpecDesktop == Init /\ [][NextDesktop]_vars

(***************************************************************************)
(* The file explorer of src/components/file_explorer.rs, one action per    *)
(* message of FileExplorer::update.  The messages the view sends carry the *)
(* names of the listing on the screen and the paths of the path bar; the   *)
(* messages update sends to its own link (NavigateTo, Refresh) wait in the *)
(* queue and are handled before the next message of the view; a File that  *)
(* is opened goes to the desktop through on_open_file.                     *)
(***************************************************************************)
\* format!("{}/{}", self.current_path, name)
FullPath(current_path, name) == current_path \o <<SEP>> \o name

\* Option<String> of error_message; the text is named by the result it reports
SomeMessage(e) == [some |-> TRUE, val |-> e]

\* format!("/{}", path_parts.join("/")) for the parts of a path: the texts
\* between its separators that are not empty
JoinParts(p) ==
    CHOOSE r \in
        {[j \in 1..Cardinality(keep) |->
            t[CHOOSE i \in keep : Cardinality({k \in keep : k <= i}) = j]]
            : t \in {<<SEP>> \o p},
              keep \in {{i \in 1..(Len(p) + 1) :
                            LET u == <<SEP>> \o p
                            IN  ~(u[i] = SEP /\ (i = Len(u) \/ u[i + 1] = SEP))}}}
        : TRUE

\* the paths of the buttons of the path bar: "/" and one for each part
PathBar(current_path) ==
    {SlashStr} \cup
    {JoinParts(SubSeq(current_path, 1, j)) :
        j \in {i \in 1..Len(current_path) :
                /\ current_path[i] # SEP
                /\ (i = Len(current_path) \/ current_path[i + 1] = SEP)}}

\* update has handled a message of the explorer and left e behind
Explored(e, type, arg, res, listed) ==
    /\ explorer' = e
    /\ last' = Call(type, arg, FALSE, EmptyStr, res, EmptyStr, listed)
    /\ UNCHANGED terminal

\* FileExplorerMsg::NavigateTo
ExplorerNavigateTo(path, rest) ==
    /\ \E r \in {list_directory(files, path)} :
          Explored(IF r.res = "Ok"
                   THEN [explorer EXCEPT !.current_path = path,
                                         !.files = Listing(files, r),
                                         !.selected_file = None,
                                         !.queue = rest]
                   ELSE [explorer EXCEPT !.error_message = SomeMessage(r.res),
                                         !.queue = rest],
                   "NavigateTo", path, r.res, r.listed)
    /\ UNCHANGED <<files, store, now, storeFailed, desktop>>

\* FileExplorerMsg::NavigateUp
ExplorerNavigateUp ==
    /\ explorer.queue = <<>> /\ desktop.queue = <<>>
    /\ \E parent \in {IF PathParent(explorer.current_path).some
                      THEN PathParent(explorer.current_path).val
                      ELSE SlashStr} :
          Explored([explorer EXCEPT !.queue = <<Msg("NavigateTo", parent)>>],
                   "NavigateUp", EmptyStr, "Ok", {})
    /\ UNCHANGED <<files, store, now, storeFailed, desktop>>

\* FileExplorerMsg::Refresh
ExplorerRefresh(rest) ==
    /\ \E r \in {list_directory(files, explorer.current_path)} :
          Explored(IF r.res = "Ok"
                   THEN [explorer EXCEPT !.files = Listing(files, r),
                                         !.queue = rest]
                   ELSE [explorer EXCEPT !.error_message = SomeMessage(r.res),
                                         !.queue = rest],
                   "Refresh", EmptyStr, r.res, r.listed)
    /\ UNCHANGED <<files, store, now, storeFailed, desktop>>

\* FileExplorerMsg::SelectFile
ExplorerSelectFile(path) ==
    /\ explorer.queue = <<>> /\ desktop.queue = <<>>
    /\ Explored([explorer EXCEPT !.selected_file = Some(path)],
                "SelectFile", path, "Ok", {})
    /\ UNCHANGED <<files, store, now, storeFailed, desktop>>

\* FileExplorerMsg::OpenFile: the first entry of self.files with the name, in
\* the order list_directory returned them, decides; a Directory is navigated
\* to, a File is handed to the desktop
ExplorerOpenFile(name) ==
    /\ explorer.queue = <<>> /\ desktop.queue = <<>>
    /\ \E full_path \in {FullPath(explorer.current_path, name)} :
          \/ /\ \A file \in explorer.files : file.name # name
             /\ Explored(explorer, "OpenFile", name, "Ok", {})
             /\ UNCHANGED desktop
          \/ \E file \in {f \in explorer.files : f.name = name} :
                IF file.file_type = "Directory"
                THEN /\ Explored([explorer EXCEPT
                                    !.queue = <<Msg("NavigateTo", full_path)>>],
                                 "OpenFile", name, "Ok", {})
                     /\ UNCHANGED desktop
                ELSE /\ desktop.window_counter < MaxWindows
                     /\ Explored(explorer, "OpenFile", name, "Ok", {})
                     /\ desktop' = [desktop EXCEPT
                                        !.queue = <<Msg("OpenFile", full_path)>>]
    /\ UNCHANGED <<files, store, now, storeFailed>>

\* a call of the explorer that changes the filesystem has left o behind: on
\* success a Refresh is sent, on an error the message is shown
ExplorerMutated(o, type, arg) ==
    /\ Mutated(o)
    /\ Explored(IF o.res = "Ok"
                THEN [explorer EXCEPT !.queue = <<Msg("Refresh", EmptyStr)>>]
                ELSE [explorer EXCEPT !.error_message = SomeMessage(o.res)],
                type, arg, o.res, {})
    /\ UNCHANGED desktop

\* FileExplorerMsg::DeleteFile
ExplorerDeleteFile(name) ==
    /\ explorer.queue = <<>> /\ desktop.queue = <<>>
    /\ now < MaxClock
    /\ \E o \in {delete(files, store, FullPath(explorer.current_path, name),
                        TRUE, EnvOk)} :
          ExplorerMutated(o, "DeleteFile", name)

\* FileExplorerMsg::CreateNewFile
ExplorerCreateNewFile ==
    /\ explorer.queue = <<>> /\ desktop.queue = <<>>
    /\ now < MaxClock
    /\ \E o \in {write_file(files, store,
                            FullPath(explorer.current_path,
                                    <<"n", "e", "w", "_", "f", "i", "l", "e", ".", "t", "x", "t">>),
                            EmptyStr, now + 1, EnvOk)} :
          ExplorerMutated(o, "CreateNewFile", EmptyStr)

\* FileExplorerMsg::CreateNewDirectory
ExplorerCreateNewDirectory ==
    /\ explorer.queue = <<>> /\ desktop.queue = <<>>
    /\ now < MaxClock
    /\ \E o \in {create_directory(files, store,
                                  FullPath(explorer.current_path,
                                          <<"n", "e", "w", "_", "d", "i", "r", "e", "c", "t", "o", "r", "y">>),
                                  FALSE, now + 1, EnvOk, 0)} :
          ExplorerMutated(o, "CreateNewDirectory", EmptyStr)

\* FileExplorerMsg::Error
ExplorerError(message) ==
    /\ explorer.queue = <<>> /\ desktop.queue = <<>>
    /\ Explored([explorer EXCEPT !.error_message = SomeMessage(message)],
                "Error", EmptyStr, message, {})
    /\ UNCHANGED <<files, store, now, storeFailed, desktop>>

\* FileExplorerMsg::ClearError
ExplorerClearError ==
    /\ explorer.queue = <<>> /\ desktop.queue = <<>>
    /\ Explored([explorer EXCEPT !.error_message = [some |-> FALSE, val |-> ""]],
                "ClearError", EmptyStr, "Ok", {})
    /\ UNCHANGED <<files, store, now, storeFailed, desktop>>

\* the explorer handles the message at the head of its queue
ExplorerDeliver ==
    /\ explorer.queue # <<>>
    /\ \E m \in {Head(explorer.queue)} :
          \/ m.type = "NavigateTo" /\ ExplorerNavigateTo(m.arg, Tail(explorer.queue))
          \/ m.type = "Refresh" /\ ExplorerRefresh(Tail(explorer.queue))

NextExplorer ==
    \/ explorer.queue = <<>> /\ desktop.queue = <<>> /\ \E path \in PathBar(explorer.current_path) :
            ExplorerNavigateTo(path, <<>>)
    \/ ExplorerNavigateUp
    \/ explorer.queue = <<>> /\ desktop.queue = <<>> /\ ExplorerRefresh(<<>>)
    \/ \E file \in explorer.files : ExplorerSelectFile(file.name)
    \/ \E file \in explorer.files : ExplorerOpenFile(file.name)
    \/ \E file \in explorer.files : ExplorerDeleteFile(file.name)
    \/ ExplorerCreateNewFile
    \/ ExplorerCreateNewDirectory
    \/ ExplorerError("ErrNotFound")
    \/ ExplorerClearError
    \/ ExplorerDeliver
    \/ DesktopDeliver

SpecExplorer == Init /\ [][NextExplorer]_vars

(***************************************************************************)
(* The terminal of src/components/terminal.rs: Terminal::update and        *)
(* Terminal::execute_command.  The view sends InputChanged and KeyDown;    *)
(* Enter sends ExecuteCommand to the terminal's own link, and a command    *)
(* that was run sends ScrollToBottom.                                      *)
(***************************************************************************)
\* the length after which execute_command drops the oldest command
HistoryLimit == 50

\* str::split_whitespace, collected
Words(s) ==
    LET Nth(S, n) == CHOOSE i \in S : Cardinality({k \in S : k <= i}) = n
    IN
    CHOOSE r \in
        {[j \in 1..Cardinality(starts) |->
            SubSeq(s, Nth(starts, j), Nth(ends, j))]
            : starts \in {{i \in 1..Len(s) :
                            s[i] # SPACE /\ (i = 1 \/ s[i - 1] = SPACE)}},
              ends \in {{i \in 1..Len(s) :
                            s[i] # SPACE /\ (i = Len(s) \/ s[i + 1] = SPACE)}}}
        : TRUE

\* [String]::join(" ")
RECURSIVE Join(_)
Join(parts) ==
    IF Len(parts) = 0 THEN EmptyStr
    ELSE IF Len(parts) = 1 THEN parts[1]
    ELSE parts[1] \o <<SPACE>> \o Join(Tail(parts))

\* Terminal::resolve_path
resolve_path(t, path) ==
    IF Len(path) > 0 /\ path[1] = SEP
    THEN path
    ELSE PathPrefix(t.current_directory) \o path

\* the commands Tab completes
Commands ==
    {<<"h", "e", "l", "p">>, <<"c", "d">>, <<"p", "w", "d">>, <<"l", "s">>,
            <<"c", "a", "t">>, <<"e", "c", "h", "o">>, <<"c", "l", "e", "a", "r">>,
            <<"m", "k", "d", "i", "r">>, <<"t", "o", "u", "c", "h">>, <<"r", "m">>,
     <<"h", "i", "s", "t", "o", "r", "y">>}

\* output_history.push
Push(t, line) == [t EXCEPT !.output_history = Append(t.output_history, line)]

\* format!("{} $ {}", self.current_directory, command)
Prompt(t, command) ==
    Line("Command", <<"$">>, t.current_directory \o <<" ", "$", " ">> \o command)

\* execute_command, "Save command to history": the push and the remove(0)
Remember(command_history, command) ==
    CHOOSE r \in
        {IF Len(pushed) > HistoryLimit THEN Tail(pushed) ELSE pushed
            : pushed \in
                {IF /\ Trim(command) # EmptyStr
                    /\ command_history # <<>>
                    /\ command_history[Len(command_history)] # command
                 THEN Append(command_history, command)
                 ELSE command_history}} : TRUE

\* what execute_command leaves behind: the terminal, the filesystem call it
\* made, if any (called), and the result of the command
Ran(t, o, called, res) ==
    [terminal |-> t, files |-> o.files, store |-> o.store, fault |-> o.fault,
     called |-> called, res |-> res]

\* the end of a command that calls a mutating method of the filesystem
RanCall(t, name, o) ==
    Ran(IF o.res = "Ok" THEN t
        ELSE Push(t, Line("ErrorOutput", <<name, o.res>>, EmptyStr)),
        o, TRUE, o.res)

\* the match on parts[0] of execute_command
Dispatch(t, fs, st, parts, clock) ==
    LET same == Outcome(fs, st, "Ok", 0, FALSE)
        operand == resolve_path(t, IF Len(parts) > 1 THEN parts[2] ELSE EmptyStr)
    IN  CASE parts[1] = <<"h", "e", "l", "p">> ->
                Ran(Push(t, Line("StandardOutput", <<"Available commands:">>,
                                 EmptyStr)), same, FALSE, "Ok")
          [] parts[1] = <<"c", "d">> ->
                (CHOOSE x \in
                    {IF r.res = "Ok"
                     THEN Ran([t EXCEPT !.current_directory = path], same, FALSE, "Ok")
                     ELSE Ran(Push(t, Line("ErrorOutput", <<"cd", r.res>>, EmptyStr)),
                              same, FALSE, r.res)
                        : path \in {resolve_path(t, IF Len(parts) > 1 THEN parts[2]
                                                     ELSE SlashStr)},
                          r \in {list_directory(fs,
                                    resolve_path(t, IF Len(parts) > 1 THEN parts[2]
                                                    ELSE SlashStr))}} : TRUE)
          [] parts[1] = <<"p", "w", "d">> ->
                Ran(Push(t, Line("StandardOutput", <<>>, t.current_directory)),
                    same, FALSE, "Ok")
          [] parts[1] = <<"l", "s">> ->
                (CHOOSE x \in
                    {IF r.res = "Ok"
                     THEN Ran(Push(t, Line("StandardOutput", <<"ls">>, EmptyStr)),
                              same, FALSE, "Ok")
                     ELSE Ran(Push(t, Line("ErrorOutput", <<"ls", r.res>>, EmptyStr)),
                              same, FALSE, r.res)
                        : r \in {list_directory(fs,
                                    IF Len(parts) > 1 THEN operand
                                    ELSE t.current_directory)}} : TRUE)
          [] parts[1] = <<"c", "a", "t">> ->
                IF Len(parts) < 2
                THEN Ran(Push(t, Line("ErrorOutput", <<"cat", "missing file operand">>,
                                      EmptyStr)), same, FALSE, "ErrMissingOperand")
                ELSE (CHOOSE x \in
                        {IF r.res = "Ok"
                         THEN Ran(Push(t, Line("StandardOutput", <<>>, r.out)),
                                  same, FALSE, "Ok")
                         ELSE Ran(Push(t, Line("ErrorOutput", <<"cat", r.res>>,
                                               EmptyStr)), same, FALSE, r.res)
                            : r \in {read_file(fs, st, operand, EnvOk)}} : TRUE)
          [] parts[1] = <<"e", "c", "h", "o">> ->
                Ran(Push(t, Line("StandardOutput", <<>>, Join(Tail(parts)))),
                    same, FALSE, "Ok")
          [] parts[1] = <<"c", "l", "e", "a", "r">> ->
                Ran([t EXCEPT !.output_history = <<>>], same, FALSE, "Ok")
          [] parts[1] = <<"m", "k", "d", "i", "r">> ->
                IF Len(parts) < 2
                THEN Ran(Push(t, Line("ErrorOutput",
                                      <<"mkdir", "missing directory operand">>,
                                      EmptyStr)), same, FALSE, "ErrMissingOperand")
                ELSE RanCall(t, "mkdir",
                             create_directory(fs, st, operand, FALSE, clock, EnvOk, 0))
          [] parts[1] = <<"t", "o", "u", "c", "h">> ->
                IF Len(parts) < 2
                THEN Ran(Push(t, Line("ErrorOutput", <<"touch", "missing file operand">>,
                                      EmptyStr)), same, FALSE, "ErrMissingOperand")
                ELSE RanCall(t, "touch",
                             write_file(fs, st, operand, EmptyStr, clock, EnvOk))
          [] parts[1] = <<"r", "m">> ->
                IF Len(parts) < 2
                THEN Ran(Push(t, Line("ErrorOutput", <<"rm", "missing operand">>,
                                      EmptyStr)), same, FALSE, "ErrMissingOperand")
                ELSE RanCall(t, "rm",
                             delete(fs, st, operand,
                                    Len(parts) > 2 /\ parts[3] = <<"-", "r">>, EnvOk))
          [] parts[1] = <<"h", "i", "s", "t", "o", "r", "y">> ->
                Ran(Push(t, Line("StandardOutput",
                                 IF t.command_history = <<>>
                                 THEN <<"No command history">>
                                 ELSE <<"Command History:">>, EmptyStr)),
                    same, FALSE, "Ok")
          [] OTHER ->
                Ran(Push(t, Line("ErrorOutput", <<"Unknown command">>, parts[1])),
                    same, FALSE, "ErrUnknownCommand")

\* Terminal::execute_command
execute_command(t, fs, st, command, clock) ==
    CHOOSE x \in
        {IF Len(parts) = 0
         THEN Ran(t1, Outcome(fs, st, "Ok", 0, FALSE), FALSE, "Ok")
         ELSE Dispatch(t1, fs, st, parts, clock)
            : t1 \in {[Push(t, Prompt(t, command)) EXCEPT
                        !.command_history = Remember(t.command_history, command),
                        !.history_index = [some |-> FALSE, val |-> 0]]},
              parts \in {Words(Trim(command))}} : TRUE

\* KeyDown "ArrowUp": to the previous command of the history
ArrowUp(t) ==
    IF t.command_history = <<>>
    THEN t
    ELSE CHOOSE r \in
            {[t EXCEPT !.history_index = Some(index),
                       !.current_input = t.command_history[index + 1]]
                : index \in
                    {IF ~t.history_index.some THEN Len(t.command_history) - 1
                     ELSE IF t.history_index.val > 0 THEN t.history_index.val - 1
                     ELSE t.history_index.val}} : TRUE

\* KeyDown "ArrowDown": to the next command of the history, or out of it
ArrowDown(t) ==
    IF ~t.history_index.some
    THEN t
    ELSE IF t.history_index.val < Len(t.command_history) - 1
    THEN [t EXCEPT !.history_index = Some(t.history_index.val + 1),
                   !.current_input = t.command_history[t.history_index.val + 2]]
    ELSE [t EXCEPT !.history_index = [some |-> FALSE, val |-> 0], !.current_input = EmptyStr]

\* KeyDown "Tab", file and directory completion: the last word is completed
\* from the names list_directory returns for its directory
CompletePath(t, fs, input, parts) ==
    CHOOSE r \in
        {IF listed.res # "Ok" \/ Cardinality(matches) = 0
         THEN t
         ELSE IF Cardinality(matches) > 1
         THEN Push(Push(t, Prompt(t, input)),
                   Line("StandardOutput", <<"matches">>, EmptyStr))
         ELSE CHOOSE r2 \in
            {[t EXCEPT !.current_input =
                IF Len(parts) > 1
                THEN Join(Append(SubSeq(parts, 1, Len(parts) - 1), completed_path))
                ELSE parts[1] \o <<SPACE>> \o completed_path]
                : completed_path \in
                    {IF m.file_type = "Directory" /\ ~EndsWithChar(plain, SEP)
                     THEN plain \o <<SEP>> ELSE plain
                        : m \in matches,
                          plain \in
                            {IF Len(path_part) > 0 /\ path_part[1] = SEP
                             THEN IF dir_path = SlashStr
                                  THEN <<SEP>> \o m2.name
                                  ELSE dir_path \o <<SEP>> \o m2.name
                             ELSE m2.name : m2 \in matches}}} : TRUE
            : path_part \in {IF Len(parts) > 1 THEN parts[Len(parts)] ELSE EmptyStr},
              dir_path \in
                {IF EndsWithChar(to_complete, SEP) THEN to_complete
                 ELSE IF PathParent(to_complete).some
                 THEN PathParent(to_complete).val
                 ELSE SlashStr
                    : to_complete \in
                        {resolve_path(t, IF Len(parts) > 1 THEN parts[Len(parts)]
                                         ELSE EmptyStr)}},
              listed \in
                {list_directory(fs, d)
                    : d \in
                        {IF EndsWithChar(to_complete, SEP) THEN to_complete
                         ELSE IF PathParent(to_complete).some
                         THEN PathParent(to_complete).val
                         ELSE SlashStr
                            : to_complete \in
                                {resolve_path(t, IF Len(parts) > 1
                                                 THEN parts[Len(parts)]
                                                 ELSE EmptyStr)}}},
              matches \in
                {{m \in Listing(fs, list_directory(fs, d)) :
                        StartsWith(m.name, file_prefix)}
                    : d \in
                        {IF EndsWithChar(to_complete, SEP) THEN to_complete
                         ELSE IF PathParent(to_complete).some
                         THEN PathParent(to_complete).val
                         ELSE SlashStr
                            : to_complete \in
                                {resolve_path(t, IF Len(parts) > 1
                                                 THEN parts[Len(parts)]
                                                 ELSE EmptyStr)}},
                      file_prefix \in
                        {IF EndsWithChar(to_complete, SEP) THEN EmptyStr
                         ELSE IF PathParent(to_complete).some
                         THEN (IF PathFileName(to_complete).some
                               THEN PathFileName(to_complete).val ELSE EmptyStr)
                         ELSE to_complete
                            : to_complete \in
                                {resolve_path(t, IF Len(parts) > 1
                                                 THEN parts[Len(parts)]
                                                 ELSE EmptyStr)}}}} : TRUE

\* KeyDown "Tab": command completion for a single word, then file completion
Complete(t, fs) ==
    CHOOSE r \in
        {IF input = EmptyStr
         THEN t
         ELSE IF Len(parts) = 1 /\ Cardinality(matches) = 1
         THEN [t EXCEPT !.current_input = CHOOSE c \in matches : TRUE]
         ELSE IF Len(parts) = 1 /\ Cardinality(matches) > 1
         THEN Push(Push(t, Prompt(t, input)),
                   Line("StandardOutput", <<"matches">>, EmptyStr))
         ELSE IF Len(parts) > 1 \/ parts[1] \in {<<"c", "d">>, <<"l", "s">>,
                 <<"c", "a", "t">>, <<"r", "m">>, <<"t", "o", "u", "c", "h">>}
         THEN CompletePath(t, fs, input, parts)
         ELSE t
            : input \in {Trim(t.current_input)},
              parts \in {Words(Trim(t.current_input))},
              matches \in
                {{c \in Commands :
                    \A w \in {Words(Trim(t.current_input))} :
                        Len(w) > 0 /\ StartsWith(c, w[1])}}} : TRUE

\* TerminalMsg::InputChanged
TerminalInputChanged(value) ==
    /\ terminal.queue = <<>>
    /\ terminal' = [terminal EXCEPT !.current_input = value]
    /\ last' = Call("InputChanged", value, FALSE, EmptyStr, "Ok", EmptyStr, {})
    /\ UNCHANGED <<files, store, now, storeFailed, explorer, desktop>>

\* TerminalMsg::KeyDown
TerminalKeyDown(key) ==
    /\ terminal.queue = <<>>
    /\ key = "Tab" => Len(terminal.output_history) < MaxOutput
    /\ (key = "Enter" /\ Trim(terminal.current_input) # EmptyStr) =>
            /\ IF Words(Trim(terminal.current_input))[1] = <<"c", "l", "e", "a", "r">>
               THEN TRUE
               ELSE Len(terminal.output_history) < MaxOutput
            /\ IF execute_command(terminal, files, store,
                                  Trim(terminal.current_input), now + 1).called
               THEN now < MaxClock
               ELSE TRUE
    /\ terminal' =
            CASE key = "Enter" ->
                    [terminal EXCEPT !.queue = <<Msg("ExecuteCommand", EmptyStr)>>]
              [] key = "ArrowUp" -> ArrowUp(terminal)
              [] key = "ArrowDown" -> ArrowDown(terminal)
              [] key = "Tab" -> Complete(terminal, files)
              [] OTHER -> terminal
    /\ last' = Call("KeyDown", EmptyStr, FALSE, EmptyStr, key, EmptyStr, {})
    /\ UNCHANGED <<files, store, now, storeFailed, explorer, desktop>>

\* TerminalMsg::ExecuteCommand
TerminalExecuteCommand(rest) ==
    \E command \in {Trim(terminal.current_input)} :
        IF command = EmptyStr
        THEN /\ terminal' = [terminal EXCEPT !.queue = rest]
             /\ last' = Call("ExecuteCommand", command, FALSE, EmptyStr, "Ok",
                             EmptyStr, {})
             /\ UNCHANGED <<files, store, now, storeFailed, explorer, desktop>>
        ELSE \E x \in {execute_command(terminal, files, store, command, now + 1)} :
                /\ terminal' =
                        [x.terminal EXCEPT
                            !.current_input = EmptyStr,
                            !.queue = Append(rest, Msg("ScrollToBottom", EmptyStr))]
                /\ last' = Call("ExecuteCommand", command, FALSE, EmptyStr, x.res,
                                EmptyStr, {})
                /\ IF x.called
                   THEN /\ files' = x.files
                        /\ store' = x.store
                        /\ now' = now + 1
                        /\ storeFailed' = (storeFailed \/ x.fault)
                   ELSE UNCHANGED <<files, store, now, storeFailed>>
                /\ UNCHANGED <<explorer, desktop>>

\* TerminalMsg::ScrollToBottom
TerminalScrollToBottom(rest) ==
    /\ terminal' = [terminal EXCEPT !.queue = rest]
    /\ last' = Call("ScrollToBottom", EmptyStr, FALSE, EmptyStr, "Ok", EmptyStr, {})
    /\ UNCHANGED <<files, store, now, storeFailed, explorer, desktop>>

\* the terminal handles the message at the head of its queue
TerminalDeliver ==
    /\ terminal.queue # <<>>
    /\ \E m \in {Head(terminal.queue)} :
          \/ m.type = "ExecuteCommand" /\ TerminalExecuteCommand(Tail(terminal.queue))
          \/ m.type = "ScrollToBottom" /\ TerminalScrollToBottom(Tail(terminal.queue))

NextTerminal ==
    \/ \E value \in {<<"p", "w", "d">>, <<" ", "p", "w", "d", " ">>, <<"c", "d", " ", "/">>,
               <<"m", "k", "d", "i", "r", " ", "x">>, <<"t", "o", "u", "c", "h", " ", "x">>,
               <<"r", "m", " ", "x">>, <<"c", "l", "e", "a", "r">>, <<"h">>,
               <<"c", "d", " ", "d">>} : TerminalInputChanged(value)
    \/ \E key \in {"Enter", "ArrowUp", "ArrowDown", "Tab", "Escape"} : TerminalKeyDown(key)
    \/ TerminalDeliver

SpecTerminal == Init /\ [][NextTerminal]_vars

(***************************************************************************)
(* Notions the properties are stated in.                                   *)
(***************************************************************************)
\* the parent path of an index key: the key without its final segment, as
\* Path::parent computes it for the parent test of every insertion
ParentOf(k) == PathParent(k).val

IsDir(fs, k) == k \in DOMAIN fs /\ fs[k].file_type = "Directory"
IsFile(fs, k) == k \in DOMAIN fs /\ fs[k].file_type = "File"

\* k lies below d: d is reached from k by taking parents
RECURSIVE IsBelow(_, _)
IsBelow(k, d) ==
    /\ PathParent(k).some
    /\ Len(ParentOf(k)) < Len(k)
    /\ (ParentOf(k) = d \/ IsBelow(ParentOf(k), d))

\* the path a call addressed
Target == normalize_path(last.path)

\* the entries of the index whose parent path is d
ChildrenOf(fs, d) ==
    {k \in DOMAIN fs \ {d} : PathParent(k).some /\ ParentOf(k) = d}

\* the results that report a store call that failed or a blob that is missing
\* (the error kind IoError)
IoError == {"ErrRead", "ErrWrite", "ErrSave", "ErrStorageUnavailable"}

\* the index the store holds under the index key
Persisted(st) == Deserialize(st[IndexKey])

\* the store holds under the index key a value that new() takes for an index
HoldsIndex(st) == IndexKey \in DOMAIN st /\ st[IndexKey].kind = "doc"

\* the paths of the index FileSystem::new is to build when it finds none
SeedSet == {P_root, P_home, P_docs, P_pics, P_apps}

\* the positions of a string that stay when each run of separators is
\* collapsed to one and a trailing separator is stripped
KeptPositions(t) ==
    {i \in 1..Len(t) : ~(t[i] = SEP /\ (i = Len(t) \/ t[i + 1] = SEP))}

\* the normal form of a path string as the specification defines it: trimmed,
\* runs of separators collapsed, no trailing separator, "/" when nothing is left
Canon(p) ==
    LET t == Trim(p)
        keep == KeptPositions(t)
    IN  IF keep = {}
        THEN SlashStr
        ELSE [j \in 1..Cardinality(keep) |->
                t[CHOOSE i \in keep : Cardinality({k \in keep : k <= i}) = j]]

\* a normalized absolute path
IsNormalized(k) == Len(k) > 0 /\ k[1] = SEP /\ Canon(k) = k

\* k is the path p or lies below it, both taken in normal form
AtOrBelow(k, p) ==
    \/ Canon(k) = Canon(p)
    \/ StartsWith(Canon(k), PathPrefix(Canon(p)))

\* the content keys whose blob a step has written, changed or removed
ChangedBlobs(st, st2) ==
    {key \in BlobKeys(st) \cup BlobKeys(st2) :
        \/ key \notin DOMAIN st
        \/ key \notin DOMAIN st2
        \/ st[key] # st2[key]}

\* what a call hands back to its caller: Ok or one of the errors
ReturnValues ==
    {"Ok", "ErrAlreadyExists", "ErrInvalidPath", "ErrParentMissing",
     "ErrNotFound", "ErrNotADirectory", "ErrNotAFile", "ErrNotEmpty"}
        \cup IoError

\* the ancestors of a path, up to the root
RECURSIVE Ancestors(_)
Ancestors(k) ==
    IF PathParent(k).some /\ Len(ParentOf(k)) < Len(k) /\ ParentOf(k) # EmptyStr
    THEN {ParentOf(k)} \cup Ancestors(ParentOf(k))
    ELSE {}

(***************************************************************************)
(* C1. Parent invariant: every non-root entry of the index has an entry at *)
(* its parent path, and that entry is a Directory.  (Under Spec the host   *)
(* never fails, and every call that changes the index returns success.)    *)
(***************************************************************************)
C1_ParentInvariant ==
    \A k \in DOMAIN files \ {P_root} : IsDir(files, ParentOf(k))

(***************************************************************************)
(* C2. In every reachable state the index contains "/" and its entry is a  *)
(* Directory.                                                              *)
(***************************************************************************)
C2_RootIsDirectory == IsDir(files, P_root)

(***************************************************************************)
(* C3. delete("/", recursive) returns an error for either value of         *)
(* recursive, in every reachable state, and leaves the index and the store *)
(* unchanged.                                                              *)
(***************************************************************************)
C3_DeleteRootFails ==
    [][(last'.op = "delete" /\ normalize_path(last'.path) = P_root)
          => (last'.res # "Ok" /\ files' = files /\ store' = store)]_vars

(***************************************************************************)
(* C4. As long as no store call has failed, a content blob is stored for a *)
(* path if and only if the index holds a File at that path; no Directory   *)
(* path has a content blob.                                                *)
(***************************************************************************)
C4_ContentIffFile ==
    ~storeFailed =>
        /\ \A k \in DOMAIN files :
                IsFile(files, k) <=> ContentKey(k) \in DOMAIN store
        /\ \A key \in BlobKeys(store) :
                \E k \in DOMAIN files : IsFile(files, k) /\ key = ContentKey(k)

\* a recursive delete has removed a.txt and its blob while another File is kept
C4_Witness ==
    /\ last.op = "delete"
    /\ last.flag
    /\ last.res = "Ok"
    /\ P_atxt \notin DOMAIN files
    /\ ContentKey(P_atxt) \notin DOMAIN store
    /\ \E k \in DOMAIN files : IsFile(files, k) /\ ContentKey(k) \in DOMAIN store

(***************************************************************************)
(* C5. Read-after-write: a read_file(p) that follows a successful          *)
(* write_file(p, c) returns exactly c; this covers the second write, after *)
(* which the read returns the contents written last.                       *)
(***************************************************************************)
C5_ReadAfterWrite ==
    [][(/\ last.op = "write_file"
        /\ last.res = "Ok"
        /\ last'.op = "read_file"
        /\ normalize_path(last'.path) = normalize_path(last.path))
          => (last'.res = "Ok" /\ last'.out = last.contents)]_vars

\* a.txt, written earlier with "hi", was written again with "bye" and then read
C5_Witness ==
    /\ last.op = "read_file"
    /\ last.path = P_atxt
    /\ last.res = "Ok"
    /\ last.out = C_bye
    /\ IsFile(files, P_atxt)
    /\ files[P_atxt].created < files[P_atxt].modified

(***************************************************************************)
(* C6. write_file is an upsert on the metadata: a successful write leaves  *)
(* a File entry whose size is the length of the contents and whose         *)
(* modified is the clock value of the call; created is that clock value    *)
(* when there was no entry at the path, and the created of the old entry   *)
(* when a File was there.                                                  *)
(***************************************************************************)
C6_WriteIsUpsert ==
    [][(last'.op = "write_file" /\ last'.res = "Ok") =>
          LET p == normalize_path(last'.path)
          IN  /\ IsFile(files', p)
              /\ files'[p].size = Len(last'.contents)
              /\ files'[p].modified = now'
              /\ (p \notin DOMAIN files => files'[p].created = now')
              /\ (IsFile(files, p) => files'[p].created = files[p].created)]_vars

\* a write over an older File: created is older than modified
C6_Witness ==
    /\ last.op = "write_file"
    /\ last.res = "Ok"
    /\ IsFile(files, Target)
    /\ files[Target].size = Len(last.contents)
    /\ files[Target].modified = now
    /\ files[Target].created < now

(***************************************************************************)
(* C7. For every directory d of the index, list_directory(d) returns       *)
(* exactly the entries whose parent path is d: every direct child, nothing *)
(* deeper, nothing outside d, and not d itself.                            *)
(***************************************************************************)
C7_ListsDirectChildren ==
    \A d \in DOMAIN files :
        IsDir(files, d) =>
            list_directory(files, d) = [res |-> "Ok", listed |-> ChildrenOf(files, d)]

(***************************************************************************)
(* C8. A successful delete(d, recursive=true) of a non-root directory d    *)
(* removes d and every entry below d from the index, removes the content   *)
(* blob of every File among them, leaves every other entry and blob as it  *)
(* was, and makes read_file fail with NotFound on every removed path.      *)
(***************************************************************************)
C8_RecursiveDelete ==
    [][(/\ last'.op = "delete"
        /\ last'.flag
        /\ last'.res = "Ok"
        /\ normalize_path(last'.path) # P_root
        /\ IsDir(files, normalize_path(last'.path)))
          => LET d == normalize_path(last'.path)
                 gone == {d} \cup {k \in DOMAIN files : IsBelow(k, d)}
             IN  /\ DOMAIN files' = DOMAIN files \ gone
                 /\ \A k \in DOMAIN files' : files'[k] = files[k]
                 /\ BlobKeys(store') =
                        BlobKeys(store) \ {ContentKey(k) : k \in gone}
                 /\ \A key \in BlobKeys(store') : store'[key] = store[key]
                 /\ \A k \in gone :
                        read_file(files', store', k, EnvOk).res = "ErrNotFound"]_vars

(***************************************************************************)
(* C9. delete(d, recursive=false) on a directory d that has at least one   *)
(* direct child fails with DirectoryNotEmpty and changes neither the       *)
(* index nor the store.                                                    *)
(***************************************************************************)
C9_NonEmptyDeleteFails ==
    [][(/\ last'.op = "delete"
        /\ ~last'.flag
        /\ IsDir(files, normalize_path(last'.path))
        /\ ChildrenOf(files, normalize_path(last'.path)) # {})
          => (last'.res = "ErrNotEmpty" /\ files' = files /\ store' = store)]_vars

(***************************************************************************)
(* C10. A successful create_directory(p, create_parents=true) adds to the  *)
(* index exactly p and each ancestor of p that was absent, all of them     *)
(* Directories of size 0, and changes no other entry; on the root alone    *)
(* create_directory("/a/b/c", true) yields /, /a, /a/b, /a/b/c; the same   *)
(* call made again fails with AlreadyExists.                               *)
(***************************************************************************)
C10_CreateParents ==
    [][(last'.op = "create_directory" /\ last'.flag) =>
          LET p == normalize_path(last'.path)
          IN  /\ last'.res = "Ok" =>
                    /\ DOMAIN files' \ DOMAIN files =
                           ({p} \cup Ancestors(p)) \ DOMAIN files
                    /\ \A k \in DOMAIN files' \ DOMAIN files :
                           files'[k].file_type = "Directory" /\ files'[k].size = 0
                    /\ \A k \in DOMAIN files :
                           k \in DOMAIN files' /\ files'[k] = files[k]
              /\ (DOMAIN files = {P_root} /\ p = P_abc) =>
                    /\ last'.res = "Ok"
                    /\ DOMAIN files' = {P_root, P_a, P_ab, P_abc}
              /\ (last.op = "create_directory" /\ last.flag /\ last.res = "Ok"
                    /\ last.path = last'.path) =>
                    last'.res = "ErrAlreadyExists"]_vars

(***************************************************************************)
(* C11. create_directory(p, create_parents) fails with AlreadyExists       *)
(* whenever the index has an entry at p, be it a File or a Directory, for  *)
(* either value of create_parents and for p = "/" as well; the failed call *)
(* leaves the index and the store as they were.                            *)
(***************************************************************************)
C11_AlreadyExists ==
    [][(last'.op = "create_directory" /\ normalize_path(last'.path) \in DOMAIN files)
          => (last'.res = "ErrAlreadyExists" /\ files' = files /\ store' = store)]_vars

\* create_directory with create_parents was refused on a path that holds a File
C11_Witness ==
    /\ last.op = "create_directory"
    /\ last.flag
    /\ last.res = "ErrAlreadyExists"
    /\ IsFile(files, Target)
    /\ IsDir(files, P_root)

(***************************************************************************)
(* C12. create_directory(p, create_parents=false) on a path p that is not  *)
(* in the index fails with ParentMissing whenever the parent path of p has *)
(* no entry in the index; the failed call adds neither p nor an ancestor   *)
(* and persists nothing.                                                   *)
(***************************************************************************)
C12_ParentMissing ==
    [][(/\ last'.op = "create_directory"
        /\ ~last'.flag
        /\ normalize_path(last'.path) \notin DOMAIN files
        /\ PathParent(normalize_path(last'.path)).some
        /\ ParentOf(normalize_path(last'.path)) \notin DOMAIN files)
          => (last'.res = "ErrParentMissing" /\ files' = files /\ store' = store)]_vars

(***************************************************************************)
(* C13. write_file(p, c) fails with ParentMissing whenever the parent path *)
(* of p holds no Directory, and creates no parent: the failed call leaves  *)
(* the index and the store as they were.                                   *)
(***************************************************************************)
C13_WriteNeedsParent ==
    [][(/\ last'.op = "write_file"
        /\ PathParent(normalize_path(last'.path)).some
        /\ ~IsDir(files, ParentOf(normalize_path(last'.path))))
          => (last'.res = "ErrParentMissing" /\ files' = files /\ store' = store)]_vars

(***************************************************************************)
(* C15. list_directory(p) fails with NotFound when the normalized p is not *)
(* in the index and with NotADirectory when it holds a File; it succeeds,  *)
(* with a listing that may be empty, when it holds a Directory.            *)
(***************************************************************************)
C15_ListErrors ==
    [][last'.op = "list_directory" =>
          LET p == normalize_path(last'.path)
          IN  /\ p \notin DOMAIN files => last'.res = "ErrNotFound"
              /\ IsFile(files, p) => last'.res = "ErrNotADirectory"
              /\ IsDir(files, p) => last'.res = "Ok"]_vars

\* list_directory was refused on a path that holds a File
C15_Witness ==
    /\ last.op = "list_directory"
    /\ last.res = "ErrNotADirectory"
    /\ IsFile(files, Target)
    /\ last.listed = {}

(***************************************************************************)
(* C14. read_file(p) fails with NotFound when p is not in the index and    *)
(* with NotAFile when p holds a Directory; when the index holds a File at  *)
(* p and the store has no content blob for p, it returns an IoError as a   *)
(* value; in each case the index and the store are left as they were.      *)
(***************************************************************************)
C14_ReadErrors ==
    [][last'.op = "read_file" =>
          LET p == normalize_path(last'.path)
          IN  /\ files' = files
              /\ store' = store
              /\ p \notin DOMAIN files => last'.res = "ErrNotFound"
              /\ IsDir(files, p) => last'.res = "ErrNotAFile"
              /\ (IsFile(files, p) /\ ContentKey(p) \notin DOMAIN store)
                    => last'.res \in IoError]_vars

\* a File whose blob was never written was read with the storage in reach
C14_Witness ==
    /\ last.op = "read_file"
    /\ last.res = "ErrRead"
    /\ IsFile(files, Target)
    /\ ContentKey(Target) \notin DOMAIN store

(***************************************************************************)
(* C16. delete(p, recursive) fails with NotFound when p is not in the      *)
(* index and changes nothing.  When p holds a File, a delete that reports  *)
(* no failed store call succeeds, also when p's content blob is missing    *)
(* already; it removes p's entry and p's blob and leaves every other entry *)
(* and every other blob as it was.                                         *)
(***************************************************************************)
C16_DeleteFile ==
    [][(last'.op = "delete" /\ last'.res # "Crash") =>
          LET p == normalize_path(last'.path)
          IN  /\ p \notin DOMAIN files =>
                    (last'.res = "ErrNotFound" /\ files' = files /\ store' = store)
              /\ IsFile(files, p) =>
                    \/ last'.res \in IoError
                    \/ /\ last'.res = "Ok"
                       /\ DOMAIN files' = DOMAIN files \ {p}
                       /\ \A k \in DOMAIN files' : files'[k] = files[k]
                       /\ BlobKeys(store') = BlobKeys(store) \ {ContentKey(p)}
                       /\ \A key \in BlobKeys(store') : store'[key] = store[key]]_vars

\* a File was deleted after a store call had failed; the blob of another File
\* is still in the store
C16_Witness ==
    /\ last.op = "delete"
    /\ last.res = "Ok"
    /\ storeFailed
    /\ Target \notin DOMAIN files
    /\ ContentKey(Target) \notin DOMAIN store
    /\ Target # P_atxt
    /\ ContentKey(P_atxt) \in DOMAIN store

(***************************************************************************)
(* C17. Whenever create_directory, write_file or delete returns success,   *)
(* the value the store holds under the index key deserializes to an index  *)
(* equal to the in-memory index at that moment.                            *)
(***************************************************************************)
C17_PersistedOnSuccess ==
    [][(/\ last'.op \in {"create_directory", "write_file", "delete"}
        /\ last'.res = "Ok")
          => (/\ IndexKey \in DOMAIN store'
              /\ IsDocument(store'[IndexKey])
              /\ Persisted(store') = files')]_vars

\* a call succeeded after an earlier one had changed the index in memory
\* without persisting it
C17_Witness ==
    /\ last.op = "create_directory"
    /\ last.res = "Ok"
    /\ storeFailed
    /\ IsFile(files, P_atxt)
    /\ ContentKey(P_atxt) \notin DOMAIN store
    /\ Persisted(store) = files

(***************************************************************************)
(* C18. Crash safety bound: at every point of every execution, the points  *)
(* between the store calls of a write_file or of a delete included, every  *)
(* File entry of the persisted index has a content blob in the store; a    *)
(* blob without an index entry is the only inconsistency there can be.     *)
(***************************************************************************)
C18_PersistedFilesHaveBlobs ==
    (IndexKey \in DOMAIN store /\ IsDocument(store[IndexKey])) =>
        \A k \in DOMAIN Persisted(store) :
            IsFile(Persisted(store), k) => ContentKey(k) \in DOMAIN store

(***************************************************************************)
(* C19. The content blob of a write_file(p, c) is written to the store     *)
(* before the index that holds p's new entry: the index is never persisted *)
(* with new metadata of a File p while the store does not hold the         *)
(* contents that metadata describes.                                       *)
(***************************************************************************)
C19_ContentBeforeIndex ==
    [][(IndexKey \in DOMAIN store /\ IndexKey \in DOMAIN store') =>
          \A p \in DOMAIN Persisted(store') :
              (/\ IsFile(Persisted(store'), p)
               /\ (p \notin DOMAIN Persisted(store)
                      \/ Persisted(store)[p] # Persisted(store')[p]))
                => (/\ ContentKey(p) \in DOMAIN store'
                    /\ Len(store'[ContentKey(p)].text) = Persisted(store')[p].size)]_vars

(***************************************************************************)
(* C20. In delete, for a File and for every File below a directory that is *)
(* deleted recursively, the content blob is removed from the store before  *)
(* the entry is removed from the in-memory index and before the index      *)
(* without that entry is persisted: once a delete has taken a File entry   *)
(* out of the in-memory index or out of the persisted one, the store holds *)
(* no blob for it.                                                         *)
(***************************************************************************)
C20_BlobBeforeEntry ==
    [][(last'.op = "delete" /\ last'.res # "Crash") =>
          \A k \in DOMAIN files :
              (/\ IsFile(files, k)
               /\ \/ k \notin DOMAIN files'
                  \/ (k \in DOMAIN Persisted(store)
                        /\ k \notin DOMAIN Persisted(store')))
                => ContentKey(k) \notin DOMAIN store']_vars

(***************************************************************************)
(* C21. A delete with recursive=true or a create_directory with            *)
(* create_parents=true that fails, at whatever step (the target itself     *)
(* after its ancestors were handled, or a store call), returns the error   *)
(* with the in-memory index as it was before the call and with no partly   *)
(* changed index persisted.                                                *)
(***************************************************************************)
C21_AllOrNothing ==
    [][(/\ last'.op \in {"create_directory", "delete"}
        /\ last'.flag
        /\ last'.res \notin {"Ok", "Crash"})
          => (/\ files' = files
              /\ IndexKey \in DOMAIN store
              /\ store'[IndexKey] = store[IndexKey])]_vars

(***************************************************************************)
(* C22. When a store write or remove fails, or the store is out of reach,  *)
(* during create_directory, write_file or delete, the call returns an      *)
(* error and the in-memory index is afterwards equal to the index that was *)
(* persisted last: the entry the call tried to add, change or remove is as *)
(* it was.                                                                 *)
(***************************************************************************)
C22_FailureRestoresIndex ==
    [][(/\ last'.op \in {"create_directory", "write_file", "delete"}
        /\ last'.res \in IoError
        /\ files = Persisted(store))
          => (files' = Persisted(store') /\ files' = files)]_vars

(***************************************************************************)
(* C23. When the store holds under the index key a serialized index that   *)
(* deserializes, new() returns a filesystem whose index is that stored     *)
(* index entry for entry, creates no seed directory and writes nothing to  *)
(* the store (a storage that is out of reach cannot be read: new() then    *)
(* returns its error).                                                     *)
(***************************************************************************)
C23_LoadsStoredIndex ==
    [][(last'.op = "new" /\ HoldsIndex(store)) =>
          /\ store' = store
          /\ \/ last'.res = "ErrStorageUnavailable" /\ files' = files
             \/ last'.res = "Ok" /\ files' = Persisted(store)]_vars

\* after a write_file that failed, the page was loaded again from a stored
\* index that has no seed directory but the root
C23_Witness ==
    /\ last.op = "new"
    /\ last.res = "Ok"
    /\ storeFailed
    /\ HoldsIndex(store)
    /\ files = Persisted(store)
    /\ DOMAIN files = {P_root}

C25_FailsOnlyWithoutStore ==
    [][last'.op = "new" => last'.res \in {"Ok", "ErrStorageUnavailable"}]_vars

C27_SpellingsAgree ==
    [][/\ last'.op \in {"list_directory", "create_directory", "write_file",
                        "read_file", "delete"}
          => normalize_path(last'.path) = Canon(last'.path)
       /\ last'.op = "list_directory"
          => (/\ last'.res = list_directory(files, Canon(last'.path)).res
              /\ last'.listed = list_directory(files, Canon(last'.path)).listed)
       /\ last'.op = "read_file"
          => last'.res = read_file(files, store, Canon(last'.path), EnvOk).res
       /\ last'.op = "create_directory"
          => last'.res = create_directory(files, store, Canon(last'.path),
                                          last'.flag, now', EnvOk, 0).res
       /\ last'.op = "write_file"
          => last'.res = write_file(files, store, Canon(last'.path),
                                    last'.contents, now', EnvOk).res
       /\ last'.op = "delete"
          => last'.res = delete(files, store, Canon(last'.path),
                                last'.flag, EnvOk).res]_vars

(***************************************************************************)
(* C28. After any sequence of operations, whatever their path arguments,   *)
(* every key of the index is a normalized absolute path: it begins with    *)
(* "/", has no empty segment and has no trailing "/" unless it is the      *)
(* root.                                                                   *)
(***************************************************************************)
C28_KeysNormalized == \A k \in DOMAIN files : IsNormalized(k)

(***************************************************************************)
(* C30. Content keys are injective and disjoint from the index key: two    *)
(* different index paths never share a content key and no content key is   *)
(* the index key.  So write_file(p, c) changes no content blob but p's and *)
(* leaves an index under the index key, and delete(p) changes no content   *)
(* blob but p's and, when recursive, those of p's descendants.             *)
(***************************************************************************)
C30_ContentKeysDisjoint ==
    [][/\ files' # files =>
              /\ Cardinality({ContentKey(k) : k \in DOMAIN files'})
                    = Cardinality(DOMAIN files')
              /\ \A k \in DOMAIN files' : ContentKey(k) # IndexKey
       /\ (store' # store /\ last'.op = "write_file") =>
              /\ ChangedBlobs(store, store')
                    \subseteq {ContentKey(normalize_path(last'.path))}
              /\ HoldsIndex(store')
       /\ (store' # store /\ last'.op = "delete") =>
              /\ \A key \in ChangedBlobs(store, store') :
                    \E q \in DOMAIN files :
                        /\ key = ContentKey(q)
                        /\ \/ q = normalize_path(last'.path)
                           \/ last'.flag /\ AtOrBelow(q, last'.path)
              /\ HoldsIndex(store')]_vars

\* a second File was written while the blob of a.txt stayed as it was
C30_Witness ==
    /\ last.op = "write_file"
    /\ last.res = "Ok"
    /\ Target # P_atxt
    /\ IsFile(files, Target)
    /\ IsFile(files, P_atxt)
    /\ store[ContentKey(Target)] = Text(C_bye)
    /\ store[ContentKey(P_atxt)] = Text(C_hi)
    /\ HoldsIndex(store)

(***************************************************************************)
(* C29. Every call of list_directory, create_directory, write_file,        *)
(* read_file or delete, for any path string and in any reachable state (a  *)
(* malformed path, a missing entry, a non-empty directory, a File of the   *)
(* index without content blob, a storage that went out of reach after the  *)
(* start), comes to an end and returns success or an error value; none     *)
(* aborts the program.                                                     *)
(***************************************************************************)
C29_NoAbort ==
    [][last'.op \in {"list_directory", "create_directory", "write_file",
                     "read_file", "delete"}
          => last'.res \in ReturnValues]_vars

\* a path with a final ".." was refused after its ancestor was created, in a
\* state where the index holds a File without content blob
C29_Witness ==
    /\ last.op = "create_directory"
    /\ last.path = P_aDotDot
    /\ last.res = "ErrInvalidPath"
    /\ storeFailed
    /\ \E k \in DOMAIN files : IsFile(files, k) /\ ContentKey(k) \notin DOMAIN store

(***************************************************************************)
(* C31. write_file never silently clobbers a directory: a write_file on a  *)
(* path that holds a Directory entry, and a write_file on a path whose     *)
(* immediate parent entry is a File, return an error and leave the index   *)
(* as it was; no Directory entry of the index becomes a File.              *)
(***************************************************************************)
C31_NoClobber ==
    [][last'.op = "write_file" =>
          /\ \A p \in {normalize_path(last'.path)} :
                (\/ IsDir(files, p)
                 \/ PathParent(p).some /\ IsFile(files, ParentOf(p)))
                    => last'.res # "Ok" /\ files' = files
          /\ \A k \in DOMAIN files :
                IsDir(files, k) => ~IsFile(files', k)]_vars

(***************************************************************************)
(* C32. Every successful mutating call persists the index exactly once: a  *)
(* successful create_directory, also one that creates missing ancestors,   *)
(* makes one set_item call in all (that of the index); a successful        *)
(* write_file makes two (the content blob, then the index); a successful   *)
(* delete, also a recursive one, makes one (the index).                    *)
(***************************************************************************)
C32_PersistsOnce ==
    [][last'.res = "Ok" =>
          /\ last'.op = "create_directory" =>
                create_directory(files, store, last'.path, last'.flag,
                                 now', EnvOk, 0).n = 1
          /\ last'.op = "write_file" =>
                write_file(files, store, last'.path, last'.contents,
                           now', EnvOk).n = 2
          /\ last'.op = "delete" =>
                delete(files, store, last'.path, last'.flag, EnvOk).n = 1]_vars

\* the segments of a path string: the texts between its separators
Segments(k) ==
    {s \in {SubSeq(k, i + 1, j - 1) :
                i \in {x \in 0..Len(k) : x = 0 \/ k[x] = SEP},
                j \in {y \in 1..(Len(k) + 1) : y = Len(k) + 1 \/ k[y] = SEP}} :
        s # EmptyStr /\ ~ContainsChar(s, SEP)}

(***************************************************************************)
(* C33. After any sequence of operations with arbitrary path arguments no  *)
(* key of the index has a segment equal to "." or "..".                    *)
(***************************************************************************)
C33_NoDotSegments ==
    \A k \in DOMAIN files : Segments(k) \cap {DotStr, DotDotStr} = {}

\* the last segment of a key taken in normal form, "/" for the root
LastSegment(k) ==
    CHOOSE s \in
        {IF c = SlashStr THEN SlashStr ELSE DropPrefix(c, RPosSep(c))
            : c \in {Canon(k)}} : TRUE

(***************************************************************************)
(* C34. Metadata consistency: in every reachable state in which no store   *)
(* call has failed, the name of each index entry is the last segment of    *)
(* its key ("/" for the root), each Directory entry has size 0, and the    *)
(* size of each File entry is the length of the content blob the store     *)
(* holds for its path.                                                     *)
(***************************************************************************)
C34_MetadataConsistent ==
    ~storeFailed =>
        \A k \in DOMAIN files :
            /\ files[k].name = LastSegment(k)
            /\ IsDir(files, k) => files[k].size = 0
            /\ IsFile(files, k) =>
                  /\ ContentKey(k) \in DOMAIN store
                  /\ store[ContentKey(k)].kind = "text"
                  /\ files[k].size = Len(store[ContentKey(k)].text)

(***************************************************************************)
(* C35. delete(d, recursive=false) on a directory d that is not the root   *)
(* and has no direct child succeeds, removes the entry d and no other from *)
(* the index, and leaves every other entry and every content blob as it    *)
(* was.                                                                    *)
(***************************************************************************)
C35_DeleteEmptyDirectory ==
    [][\A d \in {normalize_path(last'.path)} :
          (/\ last'.op = "delete"
           /\ ~last'.flag
           /\ IsDir(files, d)
           /\ Canon(d) # SlashStr
           /\ ChildrenOf(files, d) = {})
              => /\ last'.res = "Ok"
                 /\ DOMAIN files' = DOMAIN files \ {d}
                 /\ \A k \in DOMAIN files' : files'[k] = files[k]
                 /\ ChangedBlobs(store, store') = {}]_vars

(***************************************************************************)
(* C36. list_directory and read_file are read-only: whatever they return,  *)
(* the index in memory and the store, that is the persisted index and      *)
(* every content blob, are after the call what they were before it.        *)
(***************************************************************************)
C36_ReadOnly ==
    [][last'.op \in {"list_directory", "read_file"}
          => /\ files' = files
             /\ store' = store
             /\ now' = now]_vars

\* a directory with entries was listed while the index in memory differed
\* from the persisted one
C36_Witness ==
    /\ last.op = "list_directory"
    /\ last.res = "Ok"
    /\ last.listed # {}
    /\ HoldsIndex(store)
    /\ Persisted(store) # files

(***************************************************************************)
(* C39. In the desktop, after any sequence of CreateWindow, CloseWindow,   *)
(* MinimizeWindow, RestoreWindow and FocusWindow messages, at most one     *)
(* window has is_focused = true, and whenever active_window_id names a     *)
(* window of the desktop, that window is the focused one.                  *)
(***************************************************************************)
C39_OneFocus ==
    /\ Cardinality({w \in DOMAIN desktop.windows :
                        desktop.windows[w].is_focused}) <= 1
    /\ \A w \in DOMAIN desktop.windows :
            desktop.active_window_id = Some(w) => desktop.windows[w].is_focused

\* the active window was closed while a second, minimized window was on the
\* desktop, which is now the active and the focused one
C39_Witness ==
    /\ last.op = "CloseWindow"
    /\ \E w \in DOMAIN desktop.windows :
          /\ w # last.path
          /\ desktop.active_window_id = Some(w)
          /\ desktop.windows[w].is_focused
          /\ desktop.windows[w].is_minimized
    /\ desktop.window_counter = 2

(***************************************************************************)
(* C37. In the file explorer, for every current_path that names a          *)
(* directory of the index, "/" included: DeleteFile(name) for a name of    *)
(* the listing removes the entry that is the child of current_path with    *)
(* that name, and OpenFile(name) on a listed directory navigates into it,  *)
(* that is, once the NavigateTo it sends is handled current_path is the    *)
(* path of that child.                                                     *)
(***************************************************************************)
C37_ExplorerAtEveryPath ==
    [][IsDir(files, explorer.current_path) =>
          /\ last'.op = "DeleteFile" =>
                \A k \in ChildrenOf(files, explorer.current_path) :
                    files[k].name = last'.path => k \notin DOMAIN files'
          /\ (last.op = "OpenFile" /\ last'.op = "NavigateTo") =>
                \A k \in ChildrenOf(files, explorer.current_path) :
                    (files[k].name = last.path /\ IsDir(files, k))
                        => explorer'.current_path = k]_vars

\* C38: in the terminal, executing a command that is not empty and differs
\* from the most recent entry of the history (the first command on an empty
\* history included) leaves that command as the last entry of
\* command_history, and command_history holds at most 50 entries.
C38_HistoryKeepsCommand ==
    [][(/\ last'.op = "ExecuteCommand"
        /\ last'.path # EmptyStr
        /\ \/ terminal.command_history = <<>>
           \/ terminal.command_history[Len(terminal.command_history)] # last'.path)
       => /\ terminal'.command_history # <<>>
          /\ terminal'.command_history[Len(terminal'.command_history)] = last'.path
          /\ Len(terminal'.command_history) <= HistoryLimit]_vars

====
